---------------------------- MODULE Spec2Model ----------------------------
(***************************************************************************)
(* SkyMap-AI: the explainable rule engine (aiEngine: analyseWeather and    *)
(* its scoring / advice functions), the provider adapter (mlAdapter:       *)
(* getFullAnalysis, resolveInsights, callPythonMLAPI, convertMLToInsights),*)
(* the trend analyser, the conversational assistant, the weather API       *)
(* service, and the React state of useWeather, App, AiAssistantChat and    *)
(* CitiesView with their async handlers.                                   *)
(*                                                                         *)
(* Fixed-point conventions (JavaScript numbers are doubles):               *)
(*   temp, feelsLike   whole degrees C   (the normaliser Math.round()s)    *)
(*   humidity, clouds, pop   whole percent                                 *)
(*   windSpeed         tenths of m/s     (15 m/s is 150)                   *)
(*   rain, snow        tenths of mm      (2 mm is 20)                      *)
(*   visibility        metres            (data.visibility / 1000 km)       *)
(*   uvi               tenths, wrapped: <<>> is null/undefined, <<v>> is v *)
(*   score, contribution   hundredths    (score 100 is 10000)              *)
(*   weight            hundredths        (0.35 is 35)                      *)
(*   rain_probability  hundredths        (0.7 is 70)                       *)
(* A string that the code searches (description) is a sequence of          *)
(* one-character strings; message texts are plain strings without emoji.   *)
(* The free-text reason / reasoning annotations are display-only and are   *)
(* not part of the state.                                                  *)
(***************************************************************************)
EXTENDS Integers, Sequences, FiniteSets, TLC

VARIABLES
    provider,   \* CURRENT_PROVIDER of mlAdapter
    current,    \* normalised current-weather reading
    forecast,   \* normalised forecast, index 1 = soonest day
    pc,         \* position inside getFullAnalysis / the function call
    mlResponse, \* outcome of the POST /predict call while it is in flight
    insights,   \* the insights handed to the consumer (Null before)
    error,      \* the error that propagated out of getFullAnalysis, or "none"
    args,       \* arguments of a direct call of one function
    result,     \* what that call returned
    requests,   \* the requests sent to the weather provider so far, in order
    trends,         \* useWeather: the trends state (Null before)
    loading,        \* useWeather: the loading flag
    recentSearches, \* App: the recent-searches list, newest first
    question,       \* AiAssistantChat: the text in the chat input
    conversation,   \* AiAssistantChat: the messages shown, oldest first
    isTyping,       \* AiAssistantChat: the typing indicator
    savedCities,    \* CitiesView: the saved city names, in card order
    cityData,       \* CitiesView: the city names that have weather data
    addInput,       \* CitiesView: the text in the add-city input
    showAdd,        \* CitiesView: whether the add-city form is shown
    fetchError,     \* CitiesView: the error line under the form, or "none"
    activeNav,      \* App: the section shown
    calls,          \* the async calls of the components that are in flight
    started         \* the number of async calls started so far

\* the state of the React components (useWeather's current, forecast,
\* insights and error are the variables of the same name above)
uiVars == <<trends, loading, recentSearches, question, conversation, isTyping, savedCities,
            cityData, addInput, showAdd, fetchError, activeNav, calls, started>>

vars == <<provider, current, forecast, pc, mlResponse, insights, error, args, result,
          requests, uiVars>>

Null == [null |-> TRUE]

\* the components as they are mounted: the useState() initial values
\* (savedCities is given by each specification: it is read from localStorage)
UiMounted ==
    /\ trends = Null
    /\ loading = FALSE
    /\ recentSearches = <<>>
    /\ question = <<>>
    /\ conversation = <<>>
    /\ isTyping = FALSE
    /\ cityData = {}
    /\ addInput = <<>>
    /\ showAdd = FALSE
    /\ fetchError = "none"
    /\ activeNav = "weather"
    /\ calls = {}
    /\ started = 0

\* ------------------------------------------------------------------------
\*  Bounds of the explored input space
\* ------------------------------------------------------------------------
MaxTemp == 55
MaxWind == 350
MaxRain == 60
MaxSnow == 30

\* ------------------------------------------------------------------------
\*  JavaScript primitives
\* ------------------------------------------------------------------------
Max(a, b) == IF a >= b THEN a ELSE b
Min(a, b) == IF a <= b THEN a ELSE b

\* Math.round(num / den) for den > 0: nearest integer, halves towards +inf
MathRound(num, den) == (2 * num + den) \div (2 * den)

UpperCase == <<"A","B","C","D","E","F","G","H","I","J","K","L","M",
               "N","O","P","Q","R","S","T","U","V","W","X","Y","Z">>
LowerCase == <<"a","b","c","d","e","f","g","h","i","j","k","l","m",
               "n","o","p","q","r","s","t","u","v","w","x","y","z">>

\* String.prototype.toLowerCase
toLowerCase(s) ==
    [i \in 1..Len(s) |->
        IF \E k \in 1..26 : UpperCase[k] = s[i]
        THEN LowerCase[CHOOSE k \in 1..26 : UpperCase[k] = s[i]]
        ELSE s[i]]

\* String.prototype.includes: p occurs in s as a contiguous substring
includes(s, p) ==
    \E i \in 1..(Len(s) - Len(p) + 1) : SubSeq(s, i, i + Len(p) - 1) = p

KwRain         == <<"r","a","i","n">>
KwHeavyRain    == <<"h","e","a","v","y"," ","r","a","i","n">>
KwThunderstorm == <<"t","h","u","n","d","e","r","s","t","o","r","m">>
KwDrizzle      == <<"d","r","i","z","z","l","e">>
KwBlizzard     == <<"b","l","i","z","z","a","r","d">>
KwFog          == <<"f","o","g">>
KwSnow         == <<"s","n","o","w">>
KwCloud        == <<"c","l","o","u","d">>

\* ------------------------------------------------------------------------
\*  Scoring helpers
\* ------------------------------------------------------------------------
\* scoreBand without the two "return 0" guards at and beyond badLow / badHigh
scoreBandUnclamped(val, badLow, okLow, idealLow, idealHigh, okHigh, badHigh) ==
    IF val >= idealLow /\ val <= idealHigh THEN 100
    ELSE IF val < idealLow THEN
        IF val <= okLow THEN MathRound((val - badLow) * 40, Max(1, okLow - badLow))
        ELSE MathRound(40 * (idealLow - okLow) + (val - okLow) * 60, idealLow - okLow)
    ELSE
        IF val >= okHigh THEN MathRound((badHigh - val) * 40, badHigh - okHigh)
        ELSE MathRound(40 * (okHigh - idealHigh) + (okHigh - val) * 60, okHigh - idealHigh)

scoreBand(val, badLow, okLow, idealLow, idealHigh, okHigh, badHigh) ==
    IF val >= idealLow /\ val <= idealHigh THEN 100
    ELSE IF val < idealLow THEN
        IF val <= badLow THEN 0
        ELSE IF val <= okLow THEN MathRound((val - badLow) * 40, okLow - badLow)
        ELSE MathRound(40 * (idealLow - okLow) + (val - okLow) * 60, idealLow - okLow)
    ELSE
        IF val >= badHigh THEN 0
        ELSE IF val >= okHigh THEN MathRound((badHigh - val) * 40, badHigh - okHigh)
        ELSE MathRound(40 * (okHigh - idealHigh) + (okHigh - val) * 60, okHigh - idealHigh)

estimateRainChance(desc, rain, clouds) ==
    IF includes(desc, KwThunderstorm) THEN 90
    ELSE IF includes(desc, KwHeavyRain) THEN 85
    ELSE IF includes(desc, KwRain) THEN 70
    ELSE IF includes(desc, KwDrizzle) THEN 55
    ELSE IF rain > 0 THEN 60
    ELSE IF clouds > 80 THEN 30
    ELSE IF clouds > 50 THEN 15
    ELSE 5

COMFORT_WEIGHTS ==
    [temperature |-> [weight |-> 35, label |-> "Temperature",      idealRange |-> "18-26C"],
     humidity    |-> [weight |-> 25, label |-> "Humidity",         idealRange |-> "35-60%"],
     wind        |-> [weight |-> 20, label |-> "Wind Speed",       idealRange |-> "0-5 m/s"],
     rain        |-> [weight |-> 12, label |-> "Rain Probability", idealRange |-> "0-20%"],
     visibility  |-> [weight |-> 8,  label |-> "Visibility",       idealRange |-> "> 8 km"]]

\* scores are returned in hundredths
scoreTemperature(temp) == [score |-> 100 * scoreBand(temp, -10, 0, 18, 26, 35, 50)]

\* scoreTemperature with the ideal band ending at 25 instead of 26
scoreTemperatureTenthsNarrowBand(temp) ==
    [score |-> 100 * scoreBand(temp, -100, 0, 180, 250, 350, 500)]

\* scoreTemperature for a temperature given in tenths of a degree (17.9 is
\* 179): the same call of scoreBand with the band points scaled by 10
scoreTemperatureTenths(temp) ==
    [score |-> 100 * scoreBand(temp, -100, 0, 180, 260, 350, 500)]

scoreHumidity(humidity) == [score |-> 100 * scoreBand(humidity, 0, 20, 35, 60, 80, 100)]

\* windSpeed in tenths of m/s, so the band points are scaled by 10
scoreWind(windSpeed) == [score |-> 100 * scoreBand(windSpeed, 0, 0, 0, 50, 100, 300)]

scoreRainProb(pop) == [score |-> 100 * Max(0, 100 - pop)]

\* (visibility km / 10) * 100 in hundredths is the visibility in metres
scoreVisibility(visibility) == [score |-> Min(10000, visibility)]

\* +(score * weight).toFixed(2): hundredths, rounded to the nearest
buildBreakdownEntry(key, res) ==
    LET w == COMFORT_WEIGHTS[key] IN
    [factor       |-> w.label,
     score        |-> res.score,
     weight       |-> w.weight,
     contribution |-> MathRound(res.score * w.weight, 100),
     idealRange   |-> w.idealRange]

\* ------------------------------------------------------------------------
\*  Advice generators
\* ------------------------------------------------------------------------
\* goOutsideAdvice with the wind override tested before the snow override
goOutsideAdviceWindFirst(comfort, temp, wind, rain, snow, desc) ==
    IF wind > 150 THEN
        [level |-> "no", text |-> "Dangerously high winds. Avoid going outside.", confidence |-> "high"]
    ELSE IF snow > 20 \/ includes(desc, KwBlizzard) THEN
        [level |-> "no", text |-> "Heavy snow outside - stay indoors if possible.", confidence |-> "high"]
    ELSE IF rain > 50 \/ includes(desc, KwHeavyRain) \/ includes(desc, KwThunderstorm) THEN
        [level |-> "no", text |-> "Heavy rain / storm expected. Best to stay inside.", confidence |-> "high"]
    ELSE IF temp > 42 THEN
        [level |-> "no", text |-> "Extreme heat! Stay in air-conditioning.", confidence |-> "high"]
    ELSE IF temp < -15 THEN
        [level |-> "no", text |-> "Extreme cold! Risk of frostbite - stay warm indoors.", confidence |-> "high"]
    ELSE IF comfort >= 70 THEN
        [level |-> "yes", text |-> "Great weather! Perfect time to go outside and enjoy.", confidence |-> "high"]
    ELSE IF comfort >= 45 THEN
        [level |-> "maybe", text |-> "Decent weather. Going outside is fine with light preparation.", confidence |-> "medium"]
    ELSE
        [level |-> "maybe", text |-> "Conditions aren't ideal, but a short outing is okay.", confidence |-> "low"]

goOutsideAdvice(comfort, temp, wind, rain, snow, desc) ==
    IF snow > 20 \/ includes(desc, KwBlizzard) THEN
        [level |-> "no", text |-> "Heavy snow outside - stay indoors if possible.", confidence |-> "high"]
    ELSE IF rain > 50 \/ includes(desc, KwHeavyRain) \/ includes(desc, KwThunderstorm) THEN
        [level |-> "no", text |-> "Heavy rain / storm expected. Best to stay inside.", confidence |-> "high"]
    ELSE IF wind > 150 THEN
        [level |-> "no", text |-> "Dangerously high winds. Avoid going outside.", confidence |-> "high"]
    ELSE IF temp > 42 THEN
        [level |-> "no", text |-> "Extreme heat! Stay in air-conditioning.", confidence |-> "high"]
    ELSE IF temp < -15 THEN
        [level |-> "no", text |-> "Extreme cold! Risk of frostbite - stay warm indoors.", confidence |-> "high"]
    ELSE IF comfort >= 70 THEN
        [level |-> "yes", text |-> "Great weather! Perfect time to go outside and enjoy.", confidence |-> "high"]
    ELSE IF comfort >= 45 THEN
        [level |-> "maybe", text |-> "Decent weather. Going outside is fine with light preparation.", confidence |-> "medium"]
    ELSE
        [level |-> "maybe", text |-> "Conditions aren't ideal, but a short outing is okay.", confidence |-> "low"]

\* umbrellaAdvice with the medium tier starting above 40 instead of at 40
umbrellaAdviceStrictTier(pop, rain, desc) ==
    IF includes(desc, KwThunderstorm) THEN
        [needed |-> TRUE, text |-> "Thunderstorms expected - definitely carry an umbrella and stay cautious.", confidence |-> "high"]
    ELSE IF pop >= 70 \/ rain > 20 THEN
        [needed |-> TRUE, text |-> "High chance of rain. Bring an umbrella!", confidence |-> "high"]
    ELSE IF pop > 40 THEN
        [needed |-> TRUE, text |-> "Moderate rain chance. Better safe than sorry - pack an umbrella.", confidence |-> "medium"]
    ELSE IF pop >= 20 THEN
        [needed |-> FALSE, text |-> "Slight rain chance. A compact umbrella wouldn't hurt.", confidence |-> "low"]
    ELSE
        [needed |-> FALSE, text |-> "Skies look clear - no umbrella needed.", confidence |-> "high"]

umbrellaAdvice(pop, rain, desc) ==
    IF includes(desc, KwThunderstorm) THEN
        [needed |-> TRUE, text |-> "Thunderstorms expected - definitely carry an umbrella and stay cautious.", confidence |-> "high"]
    ELSE IF pop >= 70 \/ rain > 20 THEN
        [needed |-> TRUE, text |-> "High chance of rain. Bring an umbrella!", confidence |-> "high"]
    ELSE IF pop >= 40 THEN
        [needed |-> TRUE, text |-> "Moderate rain chance. Better safe than sorry - pack an umbrella.", confidence |-> "medium"]
    ELSE IF pop >= 20 THEN
        [needed |-> FALSE, text |-> "Slight rain chance. A compact umbrella wouldn't hurt.", confidence |-> "low"]
    ELSE
        [needed |-> FALSE, text |-> "Skies look clear - no umbrella needed.", confidence |-> "high"]

\* travelAdvice that forgets the snowfall hazard
travelAdviceNoSnow(comfort, wind, visibility, rain, snow, desc) ==
    LET issues ==
            (IF visibility < 2000 THEN <<"low visibility">> ELSE <<>>)
         \o (IF wind > 120 THEN <<"strong winds">> ELSE <<>>)
         \o (IF rain > 40 THEN <<"heavy rain">> ELSE <<>>)
         \o (IF includes(desc, KwFog) THEN <<"fog">> ELSE <<>>)
    IN
    IF Len(issues) >= 2 THEN
        [suitable |-> FALSE, text |-> "Travel not recommended", issues |-> issues, confidence |-> "high"]
    ELSE IF Len(issues) = 1 THEN
        [suitable |-> FALSE, text |-> "Be careful if travelling", issues |-> issues, confidence |-> "medium"]
    ELSE IF comfort >= 65 THEN
        [suitable |-> TRUE, text |-> "Great day for travel and outdoor activities!", issues |-> issues, confidence |-> "high"]
    ELSE
        [suitable |-> TRUE, text |-> "Conditions are acceptable for travel. Stay alert.", issues |-> issues, confidence |-> "medium"]

\* issues is the list the code joins into the text
travelAdvice(comfort, wind, visibility, rain, snow, desc) ==
    LET issues ==
            (IF visibility < 2000 THEN <<"low visibility">> ELSE <<>>)
         \o (IF wind > 120 THEN <<"strong winds">> ELSE <<>>)
         \o (IF rain > 40 THEN <<"heavy rain">> ELSE <<>>)
         \o (IF snow > 10 THEN <<"snowfall">> ELSE <<>>)
         \o (IF includes(desc, KwFog) THEN <<"fog">> ELSE <<>>)
    IN
    IF Len(issues) >= 2 THEN
        [suitable |-> FALSE, text |-> "Travel not recommended", issues |-> issues, confidence |-> "high"]
    ELSE IF Len(issues) = 1 THEN
        [suitable |-> FALSE, text |-> "Be careful if travelling", issues |-> issues, confidence |-> "medium"]
    ELSE IF comfort >= 65 THEN
        [suitable |-> TRUE, text |-> "Great day for travel and outdoor activities!", issues |-> issues, confidence |-> "high"]
    ELSE
        [suitable |-> TRUE, text |-> "Conditions are acceptable for travel. Stay alert.", issues |-> issues, confidence |-> "medium"]

\* the rain-gear test with "rain > 0" in place of "rain > 1"
RainGearAnyRain(pop, rain, desc) == pop >= 50 \/ rain > 0 \/ includes(desc, KwRain)

\* the condition of the rain-gear block of outfitRecommendation
RainGearCondition(pop, rain, desc) == pop >= 50 \/ rain > 10 \/ includes(desc, KwRain)

outfitRecommendation(temp, feelsLike, rain, snow, wind, pop, desc) ==
    LET t == feelsLike
        base ==
            IF t <= 0 THEN <<"Heavy winter coat / down jacket">>
            ELSE IF t <= 10 THEN <<"Warm jacket or fleece">>
            ELSE IF t <= 18 THEN <<"Light jacket or hoodie">>
            ELSE IF t <= 25 THEN <<"T-shirt or light top">>
            ELSE <<"Light, breathable clothing">>
        bottoms ==
            IF t <= 5 THEN <<"Thermal / insulated trousers">>
            ELSE IF t <= 18 THEN <<"Jeans or long trousers">>
            ELSE <<"Shorts or light trousers">>
        rainGear ==
            IF RainGearCondition(pop, rain, desc)
            THEN <<"Waterproof jacket or umbrella", "Waterproof shoes / boots">>
            ELSE <<>>
        snowGear ==
            IF snow > 0 \/ includes(desc, KwSnow)
            THEN <<"Insulated waterproof boots", "Gloves & warm hat">>
            ELSE <<>>
        windGear == IF wind > 80 THEN <<"Windbreaker or scarf">> ELSE <<>>
        sun ==
            IF t > 25 /\ ~includes(desc, KwRain) /\ ~includes(desc, KwCloud)
            THEN <<"Sunglasses", "Sunscreen", "Hat or cap">>
            ELSE <<>>
        items == base \o bottoms \o rainGear \o snowGear \o windGear \o sun
        \* items.some(i => i.text.includes("Gloves")): only the snow-gear
        \* item "Gloves & warm hat" contains "Gloves" at this point
        cold ==
            IF t <= 5 THEN
                (IF \E i \in 1..Len(items) : items[i] = "Gloves & warm hat"
                 THEN <<>> ELSE <<"Gloves">>) \o <<"Scarf & warm hat">>
            ELSE <<>>
    IN items \o cold

\* uvi is <<>> (null / undefined) or <<tenths>>
uvAdvice(uvi) ==
    IF uvi = <<>> THEN Null
    ELSE IF uvi[1] >= 110 THEN [level |-> "extreme",   text |-> "UV index is extreme! Avoid sun exposure.", confidence |-> "high"]
    ELSE IF uvi[1] >= 80  THEN [level |-> "very-high", text |-> "Very high UV - wear sunscreen SPF 50+.", confidence |-> "high"]
    ELSE IF uvi[1] >= 60  THEN [level |-> "high",      text |-> "High UV - apply sunscreen and wear a hat.", confidence |-> "high"]
    ELSE IF uvi[1] >= 30  THEN [level |-> "moderate",  text |-> "Moderate UV - sunscreen recommended.", confidence |-> "medium"]
    ELSE [level |-> "low", text |-> "Low UV - no special protection needed.", confidence |-> "high"]

\* ------------------------------------------------------------------------
\*  Main public function
\* ------------------------------------------------------------------------
RECURSIVE SumContributions(_)
SumContributions(b) ==
    IF b = <<>> THEN 0 ELSE b[1].contribution + SumContributions(Tail(b))

\* a.score * a.weight is a product of doubles, and 0.35, 0.2, 0.12 and 0.08
\* are not binary fractions: the computed product is the double nearest to
\* the exact product or a neighbour of it.  The sets below list, per factor,
\* the whole scores (for visibility: the visibilities in metres, as its
\* score (km / 10) * 100 is itself rounded) whose product lands one double
\* below, one above or two above the nearest; 0.25 is exact.  Two entries
\* with different exact products compare as the exact products do; two with
\* the same exact product compare by these offsets.
UlpsBelowTemperature ==
    {3, 6, 7, 11, 12, 14, 17, 19, 22, 23, 24, 28, 29, 33, 34, 38, 39, 43,
     44, 45, 46, 48, 51, 53, 56, 58, 61, 63, 66, 68, 71, 73, 76, 78, 81,
     83, 85, 86, 88, 90, 91, 92, 96, 97}

UlpsAboveWind ==
    {3, 6, 7, 12, 14, 17, 19, 23, 24, 28, 29, 33, 34, 38, 39, 41, 46, 48,
     51, 53, 56, 58, 61, 63, 66, 68, 71, 73, 76, 78, 82, 87, 92, 96, 97}

UlpsBelowRain ==
    {11, 15, 22, 27, 30, 31, 37, 44, 45, 53, 54, 60, 61, 62, 74, 81, 83,
     88, 90, 97, 99}

UlpsAboveVisibility ==
    {275, 550, 875, 1025, 1100, 1175, 1425, 1475, 1725, 1750, 2050, 2075,
     2200, 2350, 2375, 2825, 2850, 2950, 3450, 3475, 3500, 4075, 4100,
     4125, 4150, 4400, 4700, 4725, 4750, 4775, 5025, 5075, 5275, 5650,
     5700, 5900, 6275, 6325, 6900, 6950, 7000, 7525, 7575, 7625, 7675,
     8150, 8175, 8200, 8250, 8300, 8775, 8800, 8825, 8875, 8925, 9400,
     9425, 9450, 9500, 9550}

UlpsTwoAboveVisibility ==
    {525, 1050, 1225, 2100, 2450, 3575, 4200, 4275, 4825, 4900, 6525,
     7150, 7775, 8400, 8550, 9025, 9175, 9650, 9800}

UlpsBelowVisibility ==
    {175, 350, 700, 825, 1400, 1650, 2175, 2275, 2675, 2775, 2800, 3300,
     3925, 4350, 4475, 4550, 4975, 5350, 5550, 5600, 5975, 6175, 6225,
     6600, 7225, 7850, 8075, 8325, 8475, 8700, 8950, 9100, 9325, 9575,
     9725, 9950}

ProductUlps(entry) ==
    LET whole == entry.score % 100 = 0
        s == entry.score \div 100
    IN  CASE entry.weight = 35 -> IF whole /\ s \in UlpsBelowTemperature THEN -1 ELSE 0
          [] entry.weight = 20 -> IF whole /\ s \in UlpsAboveWind THEN 1 ELSE 0
          [] entry.weight = 12 -> IF whole /\ s \in UlpsBelowRain THEN -1 ELSE 0
          [] entry.weight = 8  -> IF entry.score \in UlpsBelowVisibility THEN -1
                                  ELSE IF entry.score \in UlpsAboveVisibility THEN 1
                                  ELSE IF entry.score \in UlpsTwoAboveVisibility THEN 2
                                  ELSE 0
          [] OTHER -> 0

\* the comparator of the sort: a.score * a.weight - b.score * b.weight < 0
ProductLess(a, b) ==
    \/ a.score * a.weight < b.score * b.weight
    \/ /\ a.score * a.weight = b.score * b.weight
       /\ ProductUlps(a) < ProductUlps(b)

\* sorted[0] with the comparator reversed (descending sort)
DominantEntryDescending(breakdown) ==
    LET k == CHOOSE i \in 1..Len(breakdown) :
                \A j \in 1..Len(breakdown) :
                    \/ ProductLess(breakdown[j], breakdown[i])
                    \/ (~ProductLess(breakdown[i], breakdown[j]) /\ i <= j)
    IN breakdown[k]

\* sorted[0] of the stable ascending sort by score * weight: the first
\* entry whose product no other entry undercuts
DominantEntry(breakdown) ==
    LET k == CHOOSE i \in 1..Len(breakdown) :
                \A j \in 1..Len(breakdown) :
                    \/ ProductLess(breakdown[i], breakdown[j])
                    \/ (~ProductLess(breakdown[j], breakdown[i]) /\ i <= j)
    IN breakdown[k]

\* ComfortOf with Math.floor in place of Math.round
ComfortOfTruncated(breakdown, fp) == SumContributions(breakdown) \div 100

\* Math.round(sum of contributions), the sum being in hundredths.  The code
\* accumulates the contributions as doubles: when the exact sum lies on a
\* half, the accumulated double is the half itself or a neighbour just below
\* it (9.5 or 9.499999999999998), and Math.round goes up or down with it.
\* fp says which: TRUE when the double reaches the half.
ComfortOf(breakdown, fp) ==
    LET sum == SumContributions(breakdown) IN
    IF sum % 100 = 50
    THEN (IF fp THEN sum \div 100 + 1 ELSE sum \div 100)
    ELSE MathRound(sum, 100)

\* fp: the double rounding of the contribution sum, see ComfortOf
analyseWeather(cur, fc, fp) ==
    IF cur = Null THEN Null
    ELSE
    LET temp       == cur.temp
        feelsLike  == cur.feelsLike
        humidity   == cur.humidity
        windSpeed  == cur.windSpeed
        rain       == cur.rain
        snow       == cur.snow
        clouds     == cur.clouds
        visibility == cur.visibility
        desc       == toLowerCase(cur.description)
        \* forecast[0] || {}
        hasToday   == Len(fc) >= 1
        pop        == IF hasToday THEN fc[1].pop
                      ELSE estimateRainChance(desc, rain, clouds)
        todayUvi   == IF hasToday THEN fc[1].uvi ELSE <<>>
        tempResult       == scoreTemperature(temp)
        humidityResult   == scoreHumidity(humidity)
        windResult       == scoreWind(windSpeed)
        rainResult       == scoreRainProb(pop)
        visibilityResult == scoreVisibility(visibility)
        breakdown == <<buildBreakdownEntry("temperature", tempResult),
                       buildBreakdownEntry("humidity",    humidityResult),
                       buildBreakdownEntry("wind",        windResult),
                       buildBreakdownEntry("rain",        rainResult),
                       buildBreakdownEntry("visibility",  visibilityResult)>>
        comfort == ComfortOf(breakdown, fp)
        dominantFactor == DominantEntry(breakdown)
    IN
    [comfort          |-> comfort,
     comfortBreakdown |-> breakdown,
     dominantFactor   |-> [factor |-> dominantFactor.factor],
     goOutside        |-> goOutsideAdvice(comfort, temp, windSpeed, rain, snow, desc),
     umbrella         |-> umbrellaAdvice(pop, rain, desc),
     travel           |-> travelAdvice(comfort, windSpeed, visibility, rain, snow, desc),
     outfit           |-> outfitRecommendation(temp, feelsLike, rain, snow, windSpeed, pop, desc),
     uvAdvice         |-> uvAdvice(todayUvi),
     rainProbability  |-> pop,
     detailedScores   |-> [temperature |-> tempResult.score,
                           humidity    |-> humidityResult.score,
                           wind        |-> windResult.score,
                           visibility  |-> visibilityResult.score]]
\* ------------------------------------------------------------------------
\*  Inputs: condition texts of the weather provider
\* ------------------------------------------------------------------------
DescClearSky       == <<"c","l","e","a","r"," ","s","k","y">>
DescLightRain      == <<"l","i","g","h","t"," ","r","a","i","n">>
DescVeryHeavyRain  == <<"v","e","r","y"," ","h","e","a","v","y"," ","r","a","i","n">>
DescThunderstorm   == <<"t","h","u","n","d","e","r","s","t","o","r","m"," ","w","i","t","h"," ","l","i","g","h","t"," ","r","a","i","n">>
DescDrizzle        == <<"l","i","g","h","t"," ","i","n","t","e","n","s","i","t","y"," ","d","r","i","z","z","l","e">>
DescFog            == <<"f","o","g">>
DescLightSnow      == <<"l","i","g","h","t"," ","s","n","o","w">>
DescBlizzard       == <<"b","l","i","z","z","a","r","d">>
DescOvercast       == <<"o","v","e","r","c","a","s","t"," ","c","l","o","u","d","s">>
DescMixedCase      == <<"H","e","a","v","y"," ","R","a","i","n">>

Descriptions ==
    {DescClearSky, DescLightRain, DescVeryHeavyRain, DescThunderstorm, DescDrizzle,
     DescFog, DescLightSnow, DescBlizzard, DescOvercast, DescMixedCase}

\* ------------------------------------------------------------------------
\*  Inputs of the rule engine: valid readings (humidity, pop in 0..100,
\*  visibility 0..10 km, wind >= 0) around every band point of the scorers
\* ------------------------------------------------------------------------
TempValues       == {-20, -16, -10, -5, 0, 9, 18, 22, 26, 30, 35, 43, 50, MaxTemp}
HumidityValues   == {0, 10, 20, 27, 35, 60, 70, 80, 90, 100}
WindValues       == {0, 35, 50, 51, 75, 100, 151, 270, 300, MaxWind}
VisibilityValues == {0, 1500, 6437, 10000}
PopValues        == {0, 15, 45, 100}

ForecastDay(pop, uvi) == [pop |-> pop, uvi |-> uvi]

\* no forecast at all, or a first day with a precipitation probability
EngineForecasts == {<<>>} \cup {<<ForecastDay(p, <<>>)>> : p \in PopValues}

\* precipitation, clouds and condition text as the provider reports them together
EngineConditions ==
    {[description |-> DescClearSky,     rain |-> 0,       snow |-> 0, clouds |-> 0],
     [description |-> DescOvercast,     rain |-> 0,       snow |-> 0, clouds |-> 90],
     [description |-> DescLightRain,    rain |-> 15,      snow |-> 0, clouds |-> 75],
     [description |-> DescThunderstorm, rain |-> MaxRain, snow |-> 0, clouds |-> 100]}

Reading(temp, feelsLike, humidity, windSpeed, visibility, cond) ==
    [temp |-> temp, feelsLike |-> feelsLike, humidity |-> humidity,
     windSpeed |-> windSpeed, visibility |-> visibility, clouds |-> cond.clouds,
     rain |-> cond.rain, snow |-> cond.snow, description |-> cond.description]

EngineReadings ==
    {Reading(t, t, h, w, v, c) :
        t \in TempValues, h \in HumidityValues, w \in WindValues,
        v \in VisibilityValues, c \in EngineConditions}

\* ------------------------------------------------------------------------
\*  EngineSpec: analyseWeather applied to every valid reading
\* ------------------------------------------------------------------------
NoArgs == [fn |-> "none"]

EngineInit ==
    /\ UiMounted /\ savedCities = <<>>
    /\ provider = "local-rules"
    /\ current \in EngineReadings
    /\ forecast \in EngineForecasts
    /\ pc = "engine"
    /\ mlResponse = [kind |-> "none"]
    /\ insights = Null
    /\ error = "none"
    /\ args = NoArgs
    /\ result = Null
    /\ requests = <<>>

AnalyseWeather ==
    /\ pc = "engine"
    /\ \E fp \in BOOLEAN : insights' = analyseWeather(current, forecast, fp)
    /\ pc' = "analysed"
    /\ UNCHANGED <<uiVars, requests, provider, current, forecast, mlResponse, error, args, result>>

EngineNext == AnalyseWeather

EngineSpec == EngineInit /\ [][EngineNext]_vars

\* ------------------------------------------------------------------------
\*  Provider adapter
\* ------------------------------------------------------------------------
AI_PROVIDERS ==
    [LOCAL_RULES |-> "local-rules", TENSORFLOW_JS |-> "tensorflow-js",
     REST_API |-> "rest-api", LLM_API |-> "llm-api"]

comfortMap == [High |-> 85, Medium |-> 60, Low |-> 35]

\* the statements of convertMLToInsights that fail with a TypeError:
\* mlResult.explanation.split(...) and mlResult.comfort_probabilities[...]
ConvertThrows(mlResult) ==
    mlResult.explanation = <<>> \/ mlResult.comfort_probabilities = <<>>

MLBreakdownEntry(factor, score, weight, comfort, idealRange) ==
    [factor |-> factor, score |-> score, weight |-> weight,
     contribution |-> comfort * weight, idealRange |-> idealRange]

MLDominantFactor(mlResult) == [factor |-> "Machine Learning"]

convertMLToInsights(mlResult, cur, fc, fp) ==
    LET comfort ==
            IF mlResult.comfort_level \in DOMAIN comfortMap
            THEN comfortMap[mlResult.comfort_level] ELSE 60
        comfortBreakdown ==
            <<MLBreakdownEntry("Temperature",
                  IF cur.temp >= 18 /\ cur.temp <= 26 THEN 10000 ELSE 6000,
                  35, comfort, "18-26C"),
              MLBreakdownEntry("Humidity",
                  IF cur.humidity >= 35 /\ cur.humidity <= 60 THEN 10000 ELSE 6000,
                  25, comfort, "35-60%"),
              MLBreakdownEntry("Wind Speed",
                  IF cur.windSpeed <= 50 THEN 10000 ELSE 6000,
                  20, comfort, "0-5 m/s"),
              MLBreakdownEntry("Rain Probability",
                  100 * Max(0, 100 - mlResult.rain_probability),
                  12, comfort, "0-20%"),
              MLBreakdownEntry("Visibility",
                  IF cur.visibility >= 8000 THEN 10000 ELSE 6000,
                  8, comfort, "> 8 km")>>
        goOutside ==
            IF mlResult.comfort_level = "High" THEN
                [level |-> "yes", text |-> "Great weather! Perfect for outdoor activities.", confidence |-> "high"]
            ELSE IF mlResult.comfort_level = "Low" THEN
                [level |-> "no", text |-> "Conditions aren't ideal for going outside.", confidence |-> "medium"]
            ELSE
                [level |-> "maybe", text |-> "Decent weather. Going outside is fine with preparation.", confidence |-> "medium"]
        umbrella ==
            [needed |-> mlResult.will_rain,
             text |-> IF mlResult.will_rain THEN "Bring an umbrella!"
                      ELSE "Skies look clear - no umbrella needed.",
             confidence |-> IF mlResult.rain_probability > 70 THEN "high" ELSE "medium"]
        travel ==
            [suitable |-> mlResult.comfort_level # "Low",
             text |-> IF mlResult.comfort_level = "High" THEN "Great day for travel!"
                      ELSE "Be cautious if travelling.",
             confidence |-> "medium"]
        \* const { outfit, uvAdvice } = analyseWeather(current, forecast)
        rules == analyseWeather(cur, fc, fp)
    IN
    [comfort          |-> comfort,
     comfortBreakdown |-> comfortBreakdown,
     dominantFactor   |-> MLDominantFactor(mlResult),
     goOutside        |-> goOutside,
     umbrella         |-> umbrella,
     travel           |-> travel,
     outfit           |-> rules.outfit,
     uvAdvice         |-> rules.uvAdvice,
     rainProbability  |-> mlResult.rain_probability,
     detailedScores   |-> [temperature |-> comfortBreakdown[1].score,
                           humidity    |-> comfortBreakdown[2].score,
                           wind        |-> comfortBreakdown[3].score,
                           visibility  |-> comfortBreakdown[5].score],
     mlMetadata       |-> [provider |-> "Python ML API",
                           rain_prob |-> mlResult.rain_probability]]

\* a catch block that logs and rethrows instead of falling back
CatchRethrow(cur, fc, fp) == [insights |-> Null, error |-> "ML API call failed"]

\* the catch block of callPythonMLAPI: whatever failed inside the try
CatchFallback(cur, fc, fp) == [insights |-> analyseWeather(cur, fc, fp), error |-> "none"]

\* ------------------------------------------------------------------------
\*  Inputs of the adapter
\* ------------------------------------------------------------------------
AdapterReadings ==
    {Reading(t, t, h, w, v, c) :
        t \in {10, 22, 30}, h \in {50, 90}, w \in {30, 80},
        v \in {5000, 10000}, c \in EngineConditions}

AdapterForecasts ==
    {<<>>, <<ForecastDay(15, <<>>)>>, <<ForecastDay(80, <<65>>)>>, <<ForecastDay(45, <<40>>)>>}

\* bodies the predictive service can answer with; explanation and
\* comfort_probabilities are <<>> when the body lacks them
MLResults ==
    {[will_rain |-> wr, rain_probability |-> rp, comfort_level |-> lvl,
      explanation |-> ex, comfort_probabilities |-> pr] :
        wr \in BOOLEAN, rp \in {10, 70, 85}, lvl \in {"High", "Medium", "Low"},
        ex \in {<<"Pleasant conditions">>}, pr \in {<<90>>}}
    \cup
    {[will_rain |-> FALSE, rain_probability |-> 10, comfort_level |-> "High",
      explanation |-> <<>>, comfort_probabilities |-> <<90>>],
     [will_rain |-> TRUE, rain_probability |-> 85, comfort_level |-> "Low",
      explanation |-> <<"Wet and windy">>, comfort_probabilities |-> <<>>]}

HttpStatuses == {200, 404, 500}

\* ------------------------------------------------------------------------
\*  Spec: getFullAnalysis under each provider
\* ------------------------------------------------------------------------
Init ==
    /\ UiMounted /\ savedCities = <<>>
    /\ provider \in {AI_PROVIDERS[k] : k \in DOMAIN AI_PROVIDERS}
    /\ current \in AdapterReadings
    /\ forecast \in AdapterForecasts
    /\ pc = "idle"
    /\ mlResponse = [kind |-> "none"]
    /\ insights = Null
    /\ error = "none"
    /\ args = NoArgs
    /\ result = Null
    /\ requests = <<>>

\* getFullAnalysis -> resolveInsights, up to its first await on the network
GetFullAnalysis ==
    /\ pc = "idle"
    /\ \/ /\ provider = AI_PROVIDERS.LOCAL_RULES
          /\ \E fp \in BOOLEAN : insights' = analyseWeather(current, forecast, fp)
          /\ pc' = "done"
          /\ UNCHANGED <<uiVars, mlResponse, error>>
       \/ /\ provider = AI_PROVIDERS.TENSORFLOW_JS
          /\ error' = "TensorFlow.js provider not yet implemented"
          /\ pc' = "done"
          /\ UNCHANGED <<uiVars, mlResponse, insights>>
       \/ /\ provider = AI_PROVIDERS.LLM_API
          /\ error' = "LLM API provider not yet implemented"
          /\ pc' = "done"
          /\ UNCHANGED <<uiVars, mlResponse, insights>>
       \/ /\ provider = AI_PROVIDERS.REST_API
          /\ mlResponse' = [kind |-> "pending"]
          /\ pc' = "fetch"
          /\ UNCHANGED <<uiVars, insights, error>>
    /\ UNCHANGED <<uiVars, requests, provider, current, forecast, args, result>>

\* callPythonMLAPI: fetch() rejects (network error)
FetchRejects ==
    /\ pc = "fetch"
    /\ mlResponse' = [kind |-> "network-error"]
    /\ \E fp \in BOOLEAN :
          LET r == CatchFallback(current, forecast, fp) IN
          insights' = r.insights /\ error' = r.error
    /\ pc' = "done"
    /\ UNCHANGED <<uiVars, requests, provider, current, forecast, args, result>>

\* callPythonMLAPI: fetch() resolves; a non-OK status throws into the catch
FetchResolves ==
    /\ pc = "fetch"
    /\ \E status \in HttpStatuses :
          IF status = 200
          THEN /\ mlResponse' = [kind |-> "response", status |-> status]
               /\ pc' = "json"
               /\ UNCHANGED <<uiVars, insights, error>>
          ELSE /\ mlResponse' = [kind |-> "http-error", status |-> status]
               /\ \E fp \in BOOLEAN :
                     LET r == CatchFallback(current, forecast, fp) IN
                     insights' = r.insights /\ error' = r.error
               /\ pc' = "done"
    /\ UNCHANGED <<uiVars, requests, provider, current, forecast, args, result>>

\* callPythonMLAPI: response.json() rejects (the body is not JSON)
JsonRejects ==
    /\ pc = "json"
    /\ mlResponse' = [kind |-> "bad-json"]
    /\ \E fp \in BOOLEAN :
          LET r == CatchFallback(current, forecast, fp) IN
          insights' = r.insights /\ error' = r.error
    /\ pc' = "done"
    /\ UNCHANGED <<uiVars, requests, provider, current, forecast, args, result>>

\* callPythonMLAPI: response.json() resolves and the body is converted
JsonResolves ==
    /\ pc = "json"
    /\ \E mlResult \in MLResults, fp \in BOOLEAN :
          IF ConvertThrows(mlResult)
          THEN /\ mlResponse' = [kind |-> "unconvertible", body |-> mlResult]
               /\ LET r == CatchFallback(current, forecast, fp) IN
                  insights' = r.insights /\ error' = r.error
          ELSE /\ mlResponse' = [kind |-> "converted", body |-> mlResult]
               /\ insights' = convertMLToInsights(mlResult, current, forecast, fp)
               /\ UNCHANGED error
    /\ pc' = "done"
    /\ UNCHANGED <<uiVars, requests, provider, current, forecast, args, result>>

Next ==
    \/ GetFullAnalysis
    \/ FetchRejects
    \/ FetchResolves
    \/ JsonRejects
    \/ JsonResolves

Spec == Init /\ [][Next]_vars

\* ------------------------------------------------------------------------
\*  AdviceSpec: one direct call of an advice generator
\* ------------------------------------------------------------------------
LowerDescriptions == {toLowerCase(d) : d \in Descriptions}

GoOutsideCalls ==
    {[fn |-> "goOutsideAdvice", comfort |-> c, temp |-> t, wind |-> w,
      rain |-> r, snow |-> sn, desc |-> d] :
        c \in {0, 44, 45, 69, 70, 100}, t \in {-16, -15, 22, 42, 43},
        w \in {0, 150, 151, 200}, r \in {0, 50, 51}, sn \in {0, 20, 21, MaxSnow},
        d \in LowerDescriptions}

UmbrellaPops == {0, 10, 19, 20, 39, 40, 45, 69, 70, 75, 100}

UmbrellaCalls ==
    {[fn |-> "umbrellaAdvice", pop |-> p, rain |-> r, desc |-> d] :
        p \in UmbrellaPops, r \in {0, 20, 21, MaxRain}, d \in LowerDescriptions}

TravelCalls ==
    {[fn |-> "travelAdvice", comfort |-> c, wind |-> w, visibility |-> v,
      rain |-> r, snow |-> sn, desc |-> d] :
        c \in {0, 64, 65, 100}, w \in {0, 120, 121}, v \in {0, 1999, 2000, 10000},
        r \in {0, 40, 41}, sn \in {0, 10, 11}, d \in LowerDescriptions}

OutfitCalls ==
    {[fn |-> "outfitRecommendation", temp |-> t, feelsLike |-> t, rain |-> r,
      snow |-> sn, wind |-> w, pop |-> p, desc |-> d] :
        t \in {-5, 0, 1, 5, 6, 10, 11, 18, 19, 25, 26, 30}, r \in {0, 5, 10, 11},
        sn \in {0, 5}, w \in {0, 80, 81}, p \in {0, 49, 50, 100},
        d \in LowerDescriptions}

AdviceInit ==
    /\ UiMounted /\ savedCities = <<>>
    /\ provider = "local-rules"
    /\ current = Null
    /\ forecast = <<>>
    /\ pc = "call"
    /\ mlResponse = [kind |-> "none"]
    /\ insights = Null
    /\ error = "none"
    /\ args \in GoOutsideCalls \cup UmbrellaCalls \cup TravelCalls \cup OutfitCalls
    /\ result = Null
    /\ requests = <<>>

CallGoOutsideAdvice ==
    /\ pc = "call"
    /\ args.fn = "goOutsideAdvice"
    /\ result' = goOutsideAdvice(args.comfort, args.temp, args.wind, args.rain, args.snow, args.desc)
    /\ pc' = "returned"
    /\ UNCHANGED <<uiVars, requests, provider, current, forecast, mlResponse, insights, error, args>>

CallUmbrellaAdvice ==
    /\ pc = "call"
    /\ args.fn = "umbrellaAdvice"
    /\ result' = umbrellaAdvice(args.pop, args.rain, args.desc)
    /\ pc' = "returned"
    /\ UNCHANGED <<uiVars, requests, provider, current, forecast, mlResponse, insights, error, args>>

CallTravelAdvice ==
    /\ pc = "call"
    /\ args.fn = "travelAdvice"
    /\ result' = travelAdvice(args.comfort, args.wind, args.visibility, args.rain, args.snow, args.desc)
    /\ pc' = "returned"
    /\ UNCHANGED <<uiVars, requests, provider, current, forecast, mlResponse, insights, error, args>>

\* the returned list is wrapped in a record, as result holds records
CallOutfitRecommendation ==
    /\ pc = "call"
    /\ args.fn = "outfitRecommendation"
    /\ result' = [items |-> outfitRecommendation(args.temp, args.feelsLike, args.rain,
                                                  args.snow, args.wind, args.pop, args.desc)]
    /\ pc' = "returned"
    /\ UNCHANGED <<uiVars, requests, provider, current, forecast, mlResponse, insights, error, args>>

AdviceNext ==
    \/ CallGoOutsideAdvice
    \/ CallUmbrellaAdvice
    \/ CallTravelAdvice
    \/ CallOutfitRecommendation

AdviceSpec == AdviceInit /\ [][AdviceNext]_vars

\* ------------------------------------------------------------------------
\*  Direct calls of the per-factor scorers
\* ------------------------------------------------------------------------
TemperatureCalls ==
    {[fn |-> "scoreTemperature", temp |-> t] : t \in (-200)..(10 * MaxTemp)}

HumidityCalls == {[fn |-> "scoreHumidity", humidity |-> h] : h \in 0..100}

ScoreInit ==
    /\ UiMounted /\ savedCities = <<>>
    /\ provider = "local-rules"
    /\ current = Null
    /\ forecast = <<>>
    /\ pc = "call"
    /\ mlResponse = [kind |-> "none"]
    /\ insights = Null
    /\ error = "none"
    /\ args \in TemperatureCalls \cup HumidityCalls
    /\ result = Null
    /\ requests = <<>>

CallScoreTemperature ==
    /\ pc = "call"
    /\ args.fn = "scoreTemperature"
    /\ result' = scoreTemperatureTenths(args.temp)
    /\ pc' = "returned"
    /\ UNCHANGED <<uiVars, requests, provider, current, forecast, mlResponse, insights, error, args>>

CallScoreHumidity ==
    /\ pc = "call"
    /\ args.fn = "scoreHumidity"
    /\ result' = scoreHumidity(args.humidity)
    /\ pc' = "returned"
    /\ UNCHANGED <<uiVars, requests, provider, current, forecast, mlResponse, insights, error, args>>

ScoreNext ==
    \/ CallScoreTemperature
    \/ CallScoreHumidity

ScoreSpec == ScoreInit /\ [][ScoreNext]_vars

\* ------------------------------------------------------------------------
\*  The dominant-factor selection applied to a breakdown with given scores
\* ------------------------------------------------------------------------
FactorKeys == <<"temperature", "humidity", "wind", "rain", "visibility">>

\* scores in hundredths, as the scorers return them
BreakdownScores == {600, 1000, 1500, 9000, 10000}

DominantCalls ==
    {[fn |-> "dominantFactor", scores |-> <<t, h, w, r, v>>] :
        t \in BreakdownScores, h \in BreakdownScores, w \in BreakdownScores,
        r \in BreakdownScores, v \in BreakdownScores}

DominantInit ==
    /\ UiMounted /\ savedCities = <<>>
    /\ provider = "local-rules"
    /\ current = Null
    /\ forecast = <<>>
    /\ pc = "call"
    /\ mlResponse = [kind |-> "none"]
    /\ insights = Null
    /\ error = "none"
    /\ args \in DominantCalls
    /\ result = Null
    /\ requests = <<>>

\* the breakdown is built entry by entry in the fixed order, then sorted
SelectDominantFactor ==
    /\ pc = "call"
    /\ args.fn = "dominantFactor"
    /\ LET breakdown == [i \in 1..5 |->
                            buildBreakdownEntry(FactorKeys[i], [score |-> args.scores[i]])]
       IN result' = [factor |-> DominantEntry(breakdown).factor]
    /\ pc' = "returned"
    /\ UNCHANGED <<uiVars, requests, provider, current, forecast, mlResponse, insights, error, args>>

DominantNext == SelectDominantFactor

DominantSpec == DominantInit /\ [][DominantNext]_vars

\* ------------------------------------------------------------------------
\*  Trend analyzer (trendAnalyzer)
\*  A forecast day carries dt, tempDay, tempMax, tempMin (whole degrees),
\*  pop (percent), windSpeed (tenths of m/s) and rain (tenths of mm).  dt is
\*  the local calendar day counted from Thursday 1 January 1970; the code
\*  holds it as seconds and only ever reads the weekday from it.  Both
\*  normalisers always set tempDay, so "d.tempDay ?? d.tempMax" is d.tempDay.
\* ------------------------------------------------------------------------
RECURSIVE SeqSum(_)
SeqSum(s) == IF s = <<>> THEN 0 ELSE Head(s) + SeqSum(Tail(s))

SeqMax(s) == CHOOSE x \in {s[i] : i \in 1..Len(s)} : \A i \in 1..Len(s) : s[i] <= x
SeqMin(s) == CHOOSE x \in {s[i] : i \in 1..Len(s)} : \A i \in 1..Len(s) : s[i] >= x

\* new Date(dt * 1000).getDay(): 0 is Sunday, 6 is Saturday
getDay(dt) == (dt + 4) % 7

DayNames == <<"Sun", "Mon", "Tue", "Wed", "Thu", "Fri", "Sat">>

dayName(unix) == DayNames[getDay(unix) + 1]

DayTemps(fc) == [i \in 1..Len(fc) |-> fc[i].tempDay]

\* diff = avg(second half) - avg(first half) is kept as the fraction
\* num / den; avg of an empty list is 0
detectTempTrend(fc) ==
    LET temps == DayTemps(fc)
        n     == Len(temps)
        n1    == (n + 1) \div 2
        n2    == n - n1
        s1    == SeqSum(SubSeq(temps, 1, n1))
        s2    == SeqSum(SubSeq(temps, n1 + 1, n))
        den   == n1 * Max(1, n2)
        num   == s2 * n1 - s1 * Max(1, n2)
        minTemp == SeqMin(temps)
        maxTemp == SeqMax(temps)
        range   == maxTemp - minTemp
    IN  IF num > 4 * den THEN
            [id |-> "temp-trend", title |-> "Warming Trend Ahead", type |-> "trend",
             confidence |-> IF num > 6 * den THEN "high" ELSE "medium",
             change |-> MathRound(num, den), extreme |-> maxTemp]
        ELSE IF num < -4 * den THEN
            [id |-> "temp-trend", title |-> "Cooling Trend Ahead", type |-> "trend",
             confidence |-> IF -num > 6 * den THEN "high" ELSE "medium",
             change |-> MathRound(-num, den), extreme |-> minTemp]
        ELSE
            [id |-> "temp-trend", title |-> "Stable Temperatures", type |-> "trend",
             confidence |-> IF range < 5 THEN "high" ELSE "medium",
             change |-> range, extreme |-> maxTemp]

RainyDays(fc) == Cardinality({i \in 1..Len(fc) : fc[i].pop >= 50})

\* rainyDays >= totalDays * 0.6 and * 0.8 are compared in tenths
detectRainPattern(fc) ==
    LET rainyDays == RainyDays(fc)
        totalDays == Len(fc)
        totalRain == SeqSum([i \in 1..Len(fc) |-> fc[i].rain])
    IN  IF rainyDays = 0 THEN
            [id |-> "rain-pattern", title |-> "Dry Spell Expected", type |-> "pattern",
             confidence |-> "high", rainyDays |-> rainyDays, totalDays |-> totalDays]
        ELSE IF 10 * rainyDays >= 6 * totalDays THEN
            [id |-> "rain-pattern", title |-> "Rainy Period Ahead", type |-> "pattern",
             confidence |-> IF 10 * rainyDays >= 8 * totalDays THEN "high" ELSE "medium",
             rainyDays |-> rainyDays, totalDays |-> totalDays,
             totalRain |-> MathRound(totalRain, 10)]
        ELSE
            [id |-> "rain-pattern", title |-> "Mixed Conditions", type |-> "pattern",
             confidence |-> "medium", rainyDays |-> rainyDays, totalDays |-> totalDays]

OutdoorTempScore(temp) ==
    IF temp >= 18 /\ temp <= 28 THEN 100 ELSE IF temp >= 10 /\ temp <= 35 THEN 60 ELSE 20

OutdoorRainScore(pop) == Max(0, 100 - pop)

OutdoorWindScore(windSpeed) ==
    IF windSpeed < 50 THEN 100 ELSE IF windSpeed < 100 THEN 60 ELSE 20

\* tempScore * 0.4 + rainScore * 0.4 + windScore * 0.2, in tenths
OutdoorScore(day) ==
    4 * OutdoorTempScore(day.tempDay) + 4 * OutdoorRainScore(day.pop)
        + 2 * OutdoorWindScore(day.windSpeed)

\* The score is a sum of products of doubles.  For these precipitation
\* probabilities, per <<tempScore, windScore>>, the computed double is the
\* one just above the double nearest to the exact score; for every other
\* combination it is the nearest.  Different exact scores keep their order.
OutdoorUlpsAbove(tempScore, windScore) ==
    CASE tempScore = 20 /\ windScore = 20 ->
            {3, 4, 8, 13, 18, 24, 29, 34, 39, 44, 49, 52, 54, 59, 62, 67, 72, 77}
      [] tempScore = 20 /\ windScore = 60 ->
            {3, 4, 8, 13, 18, 24, 29, 34, 39, 44, 49, 54, 59, 72, 77}
      [] (tempScore = 20 /\ windScore = 100) \/ (tempScore = 60 /\ windScore = 20) ->
            {3, 8, 13, 18, 24, 29, 34, 39, 44, 49, 54, 59}
      [] tempScore = 60 /\ windScore = 60 -> {3, 8, 13, 18, 34, 39, 44, 49, 54, 59}
      [] (tempScore = 60 /\ windScore = 100) \/ (tempScore = 100 /\ windScore = 20) ->
            {3, 8, 13, 18, 54, 59}
      [] OTHER -> {3, 8, 13, 18}

OutdoorUlps(day) ==
    IF day.pop \in OutdoorUlpsAbove(OutdoorTempScore(day.tempDay),
                                    OutdoorWindScore(day.windSpeed))
    THEN 1 ELSE 0

\* b.score - a.score < 0 in the descending sort: a scores higher than b
OutdoorBetter(a, b) ==
    \/ OutdoorScore(a) > OutdoorScore(b)
    \/ OutdoorScore(a) = OutdoorScore(b) /\ OutdoorUlps(a) > OutdoorUlps(b)

\* scored[0] after the stable descending sort; idx is 1-based here
BestOutdoorIndex(fc) ==
    CHOOSE i \in 1..Len(fc) :
        \A j \in 1..Len(fc) :
            \/ OutdoorBetter(fc[i], fc[j])
            \/ (~OutdoorBetter(fc[j], fc[i]) /\ i <= j)

findBestOutdoorDay(fc) ==
    IF Len(fc) = 0 THEN Null
    ELSE
    LET idx  == BestOutdoorIndex(fc)
        best == fc[idx]
    IN  [id |-> "best-day", type |-> "recommendation",
         title |-> IF idx = 1 THEN "Today" ELSE dayName(best.dt),
         temp |-> best.tempDay, pop |-> best.pop,
         confidence |-> IF OutdoorScore(best) > 800 THEN "high"
                        ELSE IF OutdoorScore(best) > 600 THEN "medium" ELSE "low"]

IsWeekendDay(d) == getDay(d.dt) = 0 \/ getDay(d.dt) = 6

weekendOutlook(fc) ==
    LET weekendDays == SelectSeq(fc, IsWeekendDay)
        avgNum == SeqSum(DayTemps(weekendDays))
        maxPop == SeqMax([i \in 1..Len(weekendDays) |-> weekendDays[i].pop])
        hasRain == maxPop > 40
    IN  IF Len(weekendDays) = 0 THEN Null
        ELSE [id |-> "weekend", type |-> "outlook",
              title |-> IF hasRain THEN "Weekend: Rain Possible" ELSE "Weekend: Looking Good!",
              temp |-> MathRound(avgNum, Len(weekendDays)), maxPop |-> maxPop,
              confidence |-> IF Len(weekendDays) >= 2 THEN "medium" ELSE "low"]

\* heatStreak after the loop has processed day i
RECURSIVE HeatStreak(_, _)
HeatStreak(fc, i) ==
    IF i = 0 THEN 0
    ELSE IF fc[i].tempMax >= 35 THEN HeatStreak(fc, i - 1) + 1
    ELSE 0

\* the heat-wave loop without "else heatStreak = 0"
HeatWaveAlertsNoReset(fc) ==
    IF \E i \in 1..Len(fc) : Cardinality({j \in 1..i : fc[j].tempMax >= 35}) >= 3
    THEN <<[id |-> "heat-wave", title |-> "Heat Wave Warning", type |-> "alert",
            confidence |-> "high",
            peak |-> SeqMax([i \in 1..Len(fc) |-> fc[i].tempMax])]>>
    ELSE <<>>

\* the heat-wave loop: it pushes one alert and breaks at the first day on
\* which the streak reaches 3
HeatWaveAlerts(fc) ==
    IF \E i \in 1..Len(fc) : HeatStreak(fc, i) >= 3
    THEN <<[id |-> "heat-wave", title |-> "Heat Wave Warning", type |-> "alert",
            confidence |-> "high",
            peak |-> SeqMax([i \in 1..Len(fc) |-> fc[i].tempMax])]>>
    ELSE <<>>

ColdSnapAlert(fc, i) ==
    [id |-> "cold-snap", title |-> "Sudden Cold Snap", type |-> "alert",
     confidence |-> "high",
     drop |-> fc[i - 1].tempMax - fc[i].tempMax,
     from |-> dayName(fc[i - 1].dt), to |-> dayName(fc[i].dt)]

\* the cold-snap loop without its break: one alert per qualifying pair
ColdSnapAlertsNoBreak(fc) ==
    LET drops == SelectSeq([i \in 1..Len(fc) |-> i],
                           LAMBDA i : i >= 2 /\ fc[i - 1].tempMax - fc[i].tempMax >= 10)
    IN  [k \in 1..Len(drops) |-> ColdSnapAlert(fc, drops[k])]

\* the cold-snap loop: it pushes one alert and breaks at the first pair of
\* adjacent days whose tempMax drops by 10 or more
ColdSnapAlerts(fc) ==
    LET drops == {i \in 2..Len(fc) : fc[i - 1].tempMax - fc[i].tempMax >= 10}
    IN  IF drops = {} THEN <<>>
        ELSE <<ColdSnapAlert(fc, CHOOSE i \in drops : \A j \in drops : i <= j)>>

IsStormDay(d) == d.pop >= 70 /\ d.windSpeed > 80

StormWatchAlerts(fc) ==
    LET stormDays == SelectSeq(fc, IsStormDay)
    IN  IF Len(stormDays) > 0
        THEN <<[id |-> "storm-watch", title |-> "Storm Watch", type |-> "alert",
                confidence |-> "medium",
                day |-> dayName(stormDays[1].dt), pop |-> stormDays[1].pop]>>
        ELSE <<>>

detectAlerts(fc, cur) == HeatWaveAlerts(fc) \o ColdSnapAlerts(fc) \o StormWatchAlerts(fc)

IsRunDay(d) == d.tempDay >= 10 /\ d.tempDay <= 25 /\ d.pop < 30 /\ d.windSpeed < 80

activityRecommendation(fc, cur) ==
    LET runDays == SelectSeq(fc, IsRunDay)
        t == cur.temp
        fromCurrent ==
            IF cur = Null THEN <<>>
            ELSE (IF t >= 15 /\ t <= 30 /\ cur.rain = 0 THEN <<"jogging">> ELSE <<>>)
              \o (IF t >= 20 /\ t <= 35 /\ cur.rain = 0 THEN <<"cycling">> ELSE <<>>)
              \o (IF t >= 5 /\ t <= 25 THEN <<"hiking">> ELSE <<>>)
              \o (IF cur.windSpeed < 50 /\ t >= 15 THEN <<"picnic">> ELSE <<>>)
              \o (IF t < 0 /\ cur.snow > 0 THEN <<"skiing">> ELSE <<>>)
        activities == IF Len(fromCurrent) = 0 THEN <<"indoor workouts">> ELSE fromCurrent
    IN  [id |-> "activities", title |-> "Suggested Activities", type |-> "recommendation",
         activities |-> activities,
         bestRunDay |-> IF Len(runDays) > 0
                        THEN <<[day |-> dayName(runDays[1].dt), temp |-> runDays[1].tempDay,
                                pop |-> runDays[1].pop]>>
                        ELSE <<>>,
         confidence |-> IF Len(activities) > 2 THEN "high" ELSE "medium"]

\* generateTrendSummary taking its tempTrend from the temp-trend insight
generateTrendSummaryFromInsight(fc, cur) ==
    LET temps == DayTemps(fc)
        rainyDays == RainyDays(fc)
        trend == detectTempTrend(fc)
    IN  [outlook |-> IF rainyDays = 0 THEN "Clear skies dominate the week."
                     ELSE IF rainyDays <= 2 THEN "Mostly dry with occasional rain."
                     ELSE "A wet week ahead - plan accordingly.",
         avgTemp |-> MathRound(SeqSum(temps), Len(temps)),
         rainyDays |-> rainyDays,
         totalDays |-> Len(fc),
         tempTrend |-> IF trend.title = "Warming Trend Ahead" THEN "warming"
                       ELSE IF trend.title = "Cooling Trend Ahead" THEN "cooling"
                       ELSE "steady"]

generateTrendSummary(fc, cur) ==
    LET temps == DayTemps(fc)
        rainyDays == RainyDays(fc)
        change == temps[Len(temps)] - temps[1]
    IN  [outlook |-> IF rainyDays = 0 THEN "Clear skies dominate the week."
                     ELSE IF rainyDays <= 2 THEN "Mostly dry with occasional rain."
                     ELSE "A wet week ahead - plan accordingly.",
         avgTemp |-> MathRound(SeqSum(temps), Len(temps)),
         rainyDays |-> rainyDays,
         totalDays |-> Len(fc),
         tempTrend |-> IF change > 3 THEN "warming"
                       ELSE IF change < -3 THEN "cooling" ELSE "steady"]

IsInsight(x) == x # Null

\* the insights in the order they are pushed, then insights.filter(Boolean)
TrendInsightList(fc, cur) ==
    LET weekendInsight == weekendOutlook(fc)
        pushed == <<detectTempTrend(fc), detectRainPattern(fc), findBestOutdoorDay(fc)>>
                    \o (IF weekendInsight # Null THEN <<weekendInsight>> ELSE <<>>)
                    \o detectAlerts(fc, cur)
                    \o <<activityRecommendation(fc, cur)>>
    IN  SelectSeq(pushed, IsInsight)

\* analyseWeatherTrends asking for at least 3 days
analyseWeatherTrendsMinThree(fc, cur) ==
    IF Len(fc) < 3 THEN [available |-> FALSE, insights |-> <<>>]
    ELSE [available |-> TRUE,
          insights  |-> TrendInsightList(fc, cur),
          summary   |-> generateTrendSummary(fc, cur)]

\* an absent forecast is the empty list (default parameter) or fails the
\* !forecast test: both take the first return
analyseWeatherTrends(fc, cur) ==
    IF Len(fc) < 2 THEN [available |-> FALSE, insights |-> <<>>]
    ELSE [available |-> TRUE,
          insights  |-> TrendInsightList(fc, cur),
          summary   |-> generateTrendSummary(fc, cur)]

\* ------------------------------------------------------------------------
\*  Direct calls of analyseWeatherTrends
\* ------------------------------------------------------------------------
\* daily.slice(0, 7): a normalised forecast has at most 7 days
MaxDays == 7

\* forecasts that also use ThresholdDay, ShowerDay and BreezyDay are explored
\* up to this length
ShortDays == 4

MildDay ==
    [tempDay |-> 22, tempMax |-> 25, tempMin |-> 15, pop |-> 10, windSpeed |-> 30, rain |-> 0,
     description |-> DescClearSky]
HotDay ==
    [tempDay |-> 33, tempMax |-> 36, tempMin |-> 25, pop |-> 0, windSpeed |-> 20, rain |-> 0,
     description |-> DescClearSky]
DipDay ==
    [tempDay |-> 31, tempMax |-> 34, tempMin |-> 24, pop |-> 50, windSpeed |-> 80, rain |-> 20,
     description |-> DescLightRain]
StormDay ==
    [tempDay |-> 12, tempMax |-> 14, tempMin |-> 8, pop |-> 70, windSpeed |-> 81, rain |-> 50,
     description |-> DescThunderstorm]
ThresholdDay ==
    [tempDay |-> 28, tempMax |-> 35, tempMin |-> 20, pop |-> 80, windSpeed |-> 80, rain |-> 30,
     description |-> DescOvercast]

\* two days with the same outdoor score 86.8: calm with showers
\* (100, 67, 100) and breezy and drier (100, 87, 60)
ShowerDay ==
    [tempDay |-> 22, tempMax |-> 25, tempMin |-> 15, pop |-> 33, windSpeed |-> 30, rain |-> 0,
     description |-> DescClearSky]
BreezyDay ==
    [tempDay |-> 22, tempMax |-> 25, tempMin |-> 15, pop |-> 13, windSpeed |-> 80, rain |-> 0,
     description |-> DescClearSky]

DayProfiles == {MildDay, HotDay, DipDay, StormDay}

ProfileLists ==
    UNION {[1..n -> DayProfiles] : n \in 0..MaxDays}
        \cup UNION {[1..n -> DayProfiles \cup {ThresholdDay, ShowerDay, BreezyDay}] :
                        n \in 0..ShortDays}

\* consecutive days from the day start on
DailyForecast(start, profiles) ==
    [i \in 1..Len(profiles) |->
        [dt        |-> start + i - 1,
         tempDay   |-> profiles[i].tempDay,
         tempMax   |-> profiles[i].tempMax,
         tempMin   |-> profiles[i].tempMin,
         pop       |-> profiles[i].pop,
         windSpeed |-> profiles[i].windSpeed,
         rain      |-> profiles[i].rain,
         description |-> profiles[i].description,
         uvi       |-> <<>>]]

\* the day the forecast starts on (0 is a Thursday, 2 a Saturday, 4 a Monday,
\* 5 a Tuesday) and the current reading that goes with it
TrendContexts ==
    {[start |-> 0, current |-> Null],
     [start |-> 2, current |-> Reading(22, 22, 50, 30, 10000,
            [description |-> DescClearSky, rain |-> 0, snow |-> 0, clouds |-> 0])],
     [start |-> 4, current |-> Reading(-5, -8, 80, 60, 5000,
            [description |-> DescLightSnow, rain |-> 0, snow |-> 10, clouds |-> 90])],
     [start |-> 5, current |-> Reading(33, 35, 70, 60, 10000,
            [description |-> DescLightRain, rain |-> 20, snow |-> 0, clouds |-> 75])]}

TrendInit ==
    /\ UiMounted /\ savedCities = <<>>
    /\ provider = "local-rules"
    /\ pc = "call"
    /\ mlResponse = [kind |-> "none"]
    /\ insights = Null
    /\ error = "none"
    /\ result = Null
    /\ requests = <<>>
    /\ \E c \in TrendContexts :
        /\ current = c.current
        /\ \/ /\ args = [fn |-> "analyseWeatherTrends", forecast |-> "absent"]
              /\ forecast = <<>>
           \/ /\ args = [fn |-> "analyseWeatherTrends", forecast |-> "given"]
              /\ \E p \in ProfileLists : forecast = DailyForecast(c.start, p)

CallAnalyseWeatherTrends ==
    /\ pc = "call"
    /\ args.fn = "analyseWeatherTrends"
    /\ result' = analyseWeatherTrends(IF args.forecast = "absent" THEN <<>> ELSE forecast,
                                      current)
    /\ pc' = "returned"
    /\ UNCHANGED <<uiVars, requests, provider, current, forecast, mlResponse, insights, error, args>>

TrendNext == CallAnalyseWeatherTrends

TrendSpec == TrendInit /\ [][TrendNext]_vars

\* ------------------------------------------------------------------------
\*  Conversational assistant (aiAssistant)
\*  A question is a sequence of characters.  A response is a record: text is
\*  the fixed wording that opens it, the other fields are the values the
\*  template interpolates.
\* ------------------------------------------------------------------------
\* Every pattern of the code is a chain of literals joined by ".*": it is
\* held as the sequence of its literals, each a sequence of characters.
INTENT_PATTERNS ==
    <<
        [intent |-> "goOutside", patterns |-> <<
            << <<"s","h","o","u","l","d">>, <<"g","o"," ","o","u","t">> >>,
            << <<"c","a","n">>, <<"g","o"," ","o","u","t">> >>,
            << <<"g","o","o","d">>, <<"o","u","t","s","i","d","e">> >>,
            << <<"s","a","f","e">>, <<"o","u","t","s","i","d","e">> >>,
            << <<"w","e","a","t","h","e","r">>, <<"o","u","t","s","i","d","e">> >>,
            << <<"o","u","t","d","o","o","r"," ","a","c","t","i","v","i","t","i","e","s">> >> >>],
        [intent |-> "umbrella", patterns |-> <<
            << <<"u","m","b","r","e","l","l","a">> >>,
            << <<"r","a","i","n">>, <<"t","o","d","a","y">> >>,
            << <<"w","i","l","l">>, <<"r","a","i","n">> >>,
            << <<"b","r","i","n","g">>, <<"r","a","i","n">> >>,
            << <<"w","e","t">>, <<"t","o","d","a","y">> >> >>],
        [intent |-> "travel", patterns |-> <<
            << <<"t","r","a","v","e","l">> >>,
            << <<"d","r","i","v","e">> >>,
            << <<"c","o","m","m","u","t","e">> >>,
            << <<"r","o","a","d">>, <<"t","r","i","p">> >>,
            << <<"s","a","f","e">>, <<"d","r","i","v","e">> >>,
            << <<"t","r","a","f","f","i","c">>, <<"w","e","a","t","h","e","r">> >> >>],
        [intent |-> "outfit", patterns |-> <<
            << <<"w","h","a","t">>, <<"w","e","a","r">> >>,
            << <<"s","h","o","u","l","d">>, <<"w","e","a","r">> >>,
            << <<"o","u","t","f","i","t">> >>,
            << <<"c","l","o","t","h","i","n","g">> >>,
            << <<"d","r","e","s","s">>, <<"t","o","d","a","y">> >>,
            << <<"j","a","c","k","e","t">> >> >>],
        [intent |-> "comfort", patterns |-> <<
            << <<"c","o","m","f","o","r","t","a","b","l","e">> >>,
            << <<"c","o","m","f","o","r","t">> >>,
            << <<"h","o","w">>, <<"f","e","e","l">> >>,
            << <<"p","l","e","a","s","a","n","t">> >> >>],
        [intent |-> "weekend", patterns |-> <<
            << <<"w","e","e","k","e","n","d">> >>,
            << <<"s","a","t","u","r","d","a","y">> >>,
            << <<"s","u","n","d","a","y">> >>,
            << <<"t","h","i","s">>, <<"w","e","e","k","e","n","d">> >> >>],
        [intent |-> "tomorrow", patterns |-> <<
            << <<"t","o","m","o","r","r","o","w">> >>,
            << <<"n","e","x","t">>, <<"d","a","y">> >> >>],
        [intent |-> "uvSun", patterns |-> <<
            << <<"s","u","n">> >>,
            << <<"u","v">> >>,
            << <<"s","u","n","s","c","r","e","e","n">> >>,
            << <<"s","u","n","b","u","r","n">> >> >>]
    >>

\* RegExp.prototype.test for a chain of literals: the first literal occurs
\* at some position at or after from, and the rest of the chain matches
\* after it ("." matches any character of a one-line question)
RECURSIVE TestFrom(_, _, _)
TestFrom(q, literals, from) ==
    IF literals = <<>> THEN TRUE
    ELSE \E i \in from..(Len(q) - Len(Head(literals)) + 1) :
            /\ SubSeq(q, i, i + Len(Head(literals)) - 1) = Head(literals)
            /\ TestFrom(q, Tail(literals), i + Len(Head(literals)))

test(pattern, q) == TestFrom(q, pattern, 1)

\* patterns.some((pattern) => pattern.test(q))
SomePatternMatches(patterns, q) ==
    \E k \in 1..Len(patterns) : test(patterns[k], q)

\* detectIntent returning the last intent that matches instead of the first
detectIntentLastMatch(qn) ==
    LET q == toLowerCase(qn)
        matching == {k \in 1..Len(INTENT_PATTERNS) :
                        SomePatternMatches(INTENT_PATTERNS[k].patterns, q)}
    IN  IF matching = {} THEN "general"
        ELSE INTENT_PATTERNS[CHOOSE k \in matching : \A m \in matching : m <= k].intent

\* the loop over Object.entries(INTENT_PATTERNS) returns at the first intent
\* one of whose patterns matches
detectIntent(qn) ==
    LET q == toLowerCase(qn)
        matching == {k \in 1..Len(INTENT_PATTERNS) :
                        SomePatternMatches(INTENT_PATTERNS[k].patterns, q)}
    IN  IF matching = {} THEN "general"
        ELSE INTENT_PATTERNS[CHOOSE k \in matching : \A m \in matching : k <= m].intent

\* the response askAssistant gives when it has nothing to work with
FixedPrompt == [text |-> "I need weather data to answer that. Search for a city first!"]

answerGoOutside(ins, cur) ==
    [text |-> IF ins.goOutside.level = "yes" THEN "Yes!"
              ELSE IF ins.goOutside.level = "no" THEN "I'd recommend staying inside."
              ELSE "It's okay to go out, but be prepared.",
     advice |-> ins.goOutside.text,
     comfortNote |-> IF ins.comfort >= 70 THEN "feels great out there!"
                     ELSE IF ins.comfort < 45 THEN "conditions aren't ideal."
                     ELSE "",
     comfort |-> ins.comfort]

answerUmbrella(ins, cur) ==
    IF ins.umbrella.needed
    THEN [text |-> "Yes, bring an umbrella.", advice |-> ins.umbrella.text,
          rainProbability |-> ins.rainProbability]
    ELSE [text |-> "No umbrella needed.", advice |-> ins.umbrella.text]

\* lowerCased marks that the advice text is appended in lower case
answerTravel(ins, cur) ==
    IF ~ins.travel.suitable
    THEN [text |-> "I'd avoid travel today.", advice |-> ins.travel.text, lowerCased |-> FALSE]
    ELSE IF ins.comfort >= 70
    THEN [text |-> "Great day for travel!", advice |-> ins.travel.text, lowerCased |-> FALSE]
    ELSE [text |-> "Travel is fine, but", advice |-> ins.travel.text, lowerCased |-> TRUE]

answerOutfit(ins, cur) ==
    [text  |-> "For this weather, wear:",
     temp  |-> cur.feelsLike,
     items |-> SubSeq(ins.outfit, 1, Min(3, Len(ins.outfit))),
     more  |-> Max(0, Len(ins.outfit) - 3)]

answerComfort(ins, cur) ==
    [text |-> IF ins.comfort >= 80 THEN "It's really comfortable outside"
              ELSE IF ins.comfort >= 60 THEN "It's comfortable outside"
              ELSE IF ins.comfort >= 40 THEN "It's okay outside"
              ELSE "It's uncomfortable outside",
     comfort |-> ins.comfort,
     temp    |-> cur.temp,
     factor  |-> ins.dominantFactor.factor]

\* forecast[i] for the 0-based indices that exist, as "min-max, pop% rain"
answerFallbackForecast(fc, dayIndices) ==
    IF Len(fc) = 0 THEN [text |-> "Forecast data not available."]
    ELSE
    LET present == SelectSeq(dayIndices, LAMBDA i : i + 1 <= Len(fc))
        days == [k \in 1..Len(present) |->
                    [tempMin |-> fc[present[k] + 1].tempMin,
                     tempMax |-> fc[present[k] + 1].tempMax,
                     pop     |-> fc[present[k] + 1].pop]]
    IN  IF Len(days) > 0 THEN [text |-> "Forecast:", days |-> days]
        ELSE [text |-> "Weekend forecast not available yet."]

IsWeekendInsight(i) == i.id = "weekend"

\* tr (trends) is Null when absent
answerWeekend(tr, fc) ==
    IF tr = Null \/ ~tr.available THEN answerFallbackForecast(fc, <<0, 6>>)
    ELSE
    LET found == SelectSeq(tr.insights, IsWeekendInsight)
    IN  IF Len(found) > 0 THEN [text |-> found[1].title, detail |-> found[1]]
        ELSE answerFallbackForecast(fc, <<0, 6>>)

answerTomorrow(fc, ins) ==
    IF Len(fc) < 2 THEN [text |-> "I don't have tomorrow's forecast data yet."]
    ELSE
    LET tomorrow == fc[2]
        rain == tomorrow.pop
    IN  [text |-> "Tomorrow:",
         description |-> tomorrow.description,
         tempMin |-> tomorrow.tempMin,
         tempMax |-> tomorrow.tempMax,
         rain |-> rain,
         outlook |-> IF rain >= 60 THEN "High chance of rain - bring an umbrella."
                     ELSE IF rain >= 30 THEN "Some rain possible."
                     ELSE "Mostly dry."]

answerUV(ins, cur) ==
    IF ins.uvAdvice = Null THEN [text |-> "UV data isn't available for this location."]
    ELSE [text |-> ins.uvAdvice.text, closing |-> "Stay safe in the sun!"]

answerGeneral(ins, cur) ==
    [text |-> "Right now:",
     description |-> cur.description,
     temp |-> cur.temp,
     comfort |-> ins.comfort,
     outside |-> IF ins.goOutside.level = "yes" THEN "Great time to head outside!"
                 ELSE IF ins.goOutside.level = "no" THEN "I'd stay indoors if possible."
                 ELSE "Conditions are manageable.",
     umbrella |-> IF ins.umbrella.needed THEN "Don't forget an umbrella!" ELSE ""]

AnswerFor(intent, ins, tr, cur, fc) ==
    CASE intent = "goOutside" -> answerGoOutside(ins, cur)
      [] intent = "umbrella"  -> answerUmbrella(ins, cur)
      [] intent = "travel"    -> answerTravel(ins, cur)
      [] intent = "outfit"    -> answerOutfit(ins, cur)
      [] intent = "comfort"   -> answerComfort(ins, cur)
      [] intent = "weekend"   -> answerWeekend(tr, fc)
      [] intent = "tomorrow"  -> answerTomorrow(fc, ins)
      [] intent = "uvSun"     -> answerUV(ins, cur)
      [] OTHER                -> answerGeneral(ins, cur)

\* askAssistant that also asks for a forecast before answering
askAssistantNeedsForecast(qn, ins, tr, cur, fc) ==
    IF qn = <<>> \/ ins = Null \/ cur = Null \/ Len(fc) = 0 THEN FixedPrompt
    ELSE AnswerFor(detectIntent(qn), ins, tr, cur, fc)

\* !question (qn) is true of the empty string only; an absent forecast reaches
\* the answer functions, where it behaves as the empty list does (both
\* "!forecast || forecast.length < 2" and "!forecast || forecast.length === 0")
askAssistant(qn, ins, tr, cur, fc) ==
    IF qn = <<>> \/ ins = Null \/ cur = Null THEN FixedPrompt
    ELSE AnswerFor(detectIntent(qn), ins, tr, cur, fc)

\* ------------------------------------------------------------------------
\*  Direct calls of askAssistant and detectIntent
\* ------------------------------------------------------------------------
\* phrases the explored questions are made of
Phrases ==
    {<<"W","h","a","t"," ","s","h","o","u","l","d"," ","I"," ","w","e","a","r">>,
     <<"t","o","m","o","r","r","o","w">>,
     <<"o","n"," ","S","u","n","d","a","y">>,
     <<"t","h","i","s"," ","w","e","e","k","e","n","d">>,
     <<"W","i","l","l"," ","i","t"," ","r","a","i","n">>,
     <<"S","h","o","u","l","d"," ","I"," ","g","o"," ","o","u","t">>,
     <<"I","s"," ","i","t"," ","s","a","f","e"," ","t","o"," ","d","r","i","v","e">>,
     <<"H","o","w"," ","s","t","r","o","n","g"," ","i","s"," ","t","h","e"," ","s","u","n">>,
     <<"I","s"," ","i","t"," ","c","o","m","f","o","r","t","a","b","l","e">>,
     <<"H","e","l","l","o"," ","t","h","e","r","e">>,
     <<"r","a","i","n"," ","t","o","d","a","y">>}

\* the empty question, a blank one, one phrase, or two phrases in a row
Questions ==
    {<<>>, <<" ">>}
        \cup {p \o <<"?">> : p \in Phrases}
        \cup {p1 \o <<" ">> \o p2 \o <<"?">> : p1 \in Phrases, p2 \in Phrases}

MildReading ==
    Reading(22, 22, 50, 30, 10000,
            [description |-> DescClearSky, rain |-> 0, snow |-> 0, clouds |-> 0])

RainyReading ==
    Reading(9, 6, 90, 80, 5000,
            [description |-> DescLightRain, rain |-> 20, snow |-> 0, clouds |-> 100])

\* no forecast argument, an empty list, one day, three weekdays from a
\* Monday, or a week from a Saturday whose first day carries a UV index
AssistantForecasts ==
    {[given |-> "absent", days |-> <<>>],
     [given |-> "given",  days |-> <<>>],
     [given |-> "given",  days |-> DailyForecast(4, <<MildDay>>)],
     [given |-> "given",  days |-> DailyForecast(4, <<MildDay, DipDay, StormDay>>)],
     [given |-> "given",
      days  |-> [DailyForecast(2, <<HotDay, StormDay, MildDay, MildDay, DipDay, HotDay, MildDay>>)
                    EXCEPT ![1].uvi = <<70>>]]}

AssistantInit ==
    /\ UiMounted /\ savedCities = <<>>
    /\ provider = "local-rules"
    /\ pc = "call"
    /\ mlResponse = [kind |-> "none"]
    /\ error = "none"
    /\ result = Null
    /\ requests = <<>>
    /\ \E q \in Questions :
        \/ /\ args = [fn |-> "detectIntent", question |-> q]
           /\ current = Null
           /\ forecast = <<>>
           /\ insights = Null
        \/ \E c \in {Null, MildReading, RainyReading}, f \in AssistantForecasts,
              hasInsights \in BOOLEAN, hasTrends \in BOOLEAN :
            /\ current = c
            /\ forecast = f.days
            /\ insights = IF hasInsights
                          THEN analyseWeather(IF c = Null THEN MildReading ELSE c, f.days, TRUE)
                          ELSE Null
            /\ args = [fn |-> "askAssistant", question |-> q, forecast |-> f.given,
                       trends |-> IF hasTrends THEN analyseWeatherTrends(f.days, c) ELSE Null]

CallDetectIntent ==
    /\ pc = "call"
    /\ args.fn = "detectIntent"
    /\ result' = [intent |-> detectIntent(args.question)]
    /\ pc' = "returned"
    /\ UNCHANGED <<uiVars, requests, provider, current, forecast, mlResponse, insights, error, args>>

CallAskAssistant ==
    /\ pc = "call"
    /\ args.fn = "askAssistant"
    /\ result' = askAssistant(args.question, insights, args.trends, current,
                              IF args.forecast = "absent" THEN <<>> ELSE forecast)
    /\ pc' = "returned"
    /\ UNCHANGED <<uiVars, requests, provider, current, forecast, mlResponse, insights, error, args>>

AssistantNext ==
    \/ CallDetectIntent
    \/ CallAskAssistant

AssistantSpec == AssistantInit /\ [][AssistantNext]_vars

\* ------------------------------------------------------------------------
\*  Weather API service: fetchForecast
\*  Provider data keeps the provider's units: temperatures in tenths of a
\*  degree, wind in tenths of m/s, pop in hundredths (0.35 is 35), rain in
\*  tenths of mm, uvi in tenths.  A daily entry's dt is its calendar day; a
\*  3-hour slot's dt counts 3-hour slots, 8 to a day.
\* ------------------------------------------------------------------------
\* data.daily.slice(0, 7).map(...): the One Call response, normalised
fetchOneCallForecast(data) ==
    LET daily == SubSeq(data.daily, 1, Min(7, Len(data.daily)))
    IN  [i \in 1..Len(daily) |->
            [dt          |-> daily[i].dt,
             tempDay     |-> MathRound(daily[i].temp.day, 10),
             tempMin     |-> MathRound(daily[i].temp.min, 10),
             tempMax     |-> MathRound(daily[i].temp.max, 10),
             pop         |-> daily[i].pop,
             windSpeed   |-> daily[i].wind_speed,
             rain        |-> daily[i].rain,
             description |-> daily[i].description,
             uvi         |-> <<daily[i].uvi>>]]

\* the element with the highest count, the first inserted among equals
mostFrequent(arr) ==
    LET count(v) == Cardinality({i \in 1..Len(arr) : arr[i] = v})
        first(v) == CHOOSE i \in 1..Len(arr) : arr[i] = v /\ \A j \in 1..(i - 1) : arr[j] # v
        best == CHOOSE i \in 1..Len(arr) :
                    /\ first(arr[i]) = i
                    /\ \A j \in 1..Len(arr) :
                          \/ count(arr[i]) > count(arr[j])
                          \/ (count(arr[i]) = count(arr[j]) /\ i <= first(arr[j]))
    IN  arr[best]

\* new Date(item.dt * 1000).toISOString().slice(0, 10): the slot's day
SlotDay(item) == item.dt \div 8

\* the days of the list in the order their first slot appears
GroupedDays(list) ==
    LET isFirst(i) == \A j \in 1..(i - 1) : SlotDay(list[j]) # SlotDay(list[i])
        firsts == SelectSeq([i \in 1..Len(list) |-> i], isFirst)
    IN  [k \in 1..Len(firsts) |-> SlotDay(list[firsts[k]])]

\* the 5-day / 3-hour response grouped by day and summarised per day
fetchFiveDayForecast(data) ==
    LET days == GroupedDays(data.list)
        kept == SubSeq(days, 1, Min(7, Len(days)))
        slotsOf(day) == SelectSeq(data.list, LAMBDA s : SlotDay(s) = day)
        summary(slots) ==
            LET temps == [i \in 1..Len(slots) |-> slots[i].temp]
                winds == [i \in 1..Len(slots) |-> slots[i].wind]
                pops  == [i \in 1..Len(slots) |-> slots[i].pop]
                rains == [i \in 1..Len(slots) |-> slots[i].rain]
            IN  [dt          |-> SlotDay(slots[1]),
                 tempDay     |-> MathRound(SeqSum(temps), 10 * Len(temps)),
                 tempMin     |-> MathRound(SeqMin(temps), 10),
                 tempMax     |-> MathRound(SeqMax(temps), 10),
                 pop         |-> SeqMax(pops),
                 windSpeed   |-> MathRound(SeqSum(winds), Len(winds)),
                 rain        |-> SeqSum(rains),
                 description |-> mostFrequent([i \in 1..Len(slots) |-> slots[i].description]),
                 uvi         |-> <<>>]
    IN  [k \in 1..Len(kept) |-> summary(slotsOf(kept[k]))]

OneCallDay(dt, day, min, max, pop, wind, rain, uvi, desc) ==
    [dt |-> dt, temp |-> [day |-> day, min |-> min, max |-> max], pop |-> pop,
     wind_speed |-> wind, rain |-> rain, uvi |-> uvi, description |-> desc]

\* a week and a day of daily entries, the first k of which are served
OneCallWeek ==
    <<OneCallDay(0, 215, 148, 246, 10, 31, 0, 52, DescClearSky),
      OneCallDay(1, 225, 150, 255, 35, 46, 0, 61, DescOvercast),
      OneCallDay(2, 174, 121, 195, 80, 83, 64, 18, DescLightRain),
      OneCallDay(3, -15, -60, 5, 60, 52, 0, 9, DescLightSnow),
      OneCallDay(4, 355, 249, 365, 0, 20, 0, 112, DescClearSky),
      OneCallDay(5, 305, 240, 345, 50, 80, 20, 75, DescLightRain),
      OneCallDay(6, 125, 84, 145, 70, 81, 50, 30, DescThunderstorm),
      OneCallDay(7, 220, 150, 250, 10, 30, 0, 50, DescClearSky)>>

OneCallResponses == {[daily |-> SubSeq(OneCallWeek, 1, k)] : k \in 0..8}

Slot(temp, wind, pop, rain, desc) ==
    [temp |-> temp, wind |-> wind, pop |-> pop, rain |-> rain, description |-> desc]

SlotKinds ==
    {Slot(205, 20, 0, 0, DescClearSky),
     Slot(180, 25, 35, 0, DescOvercast),
     Slot(155, 83, 80, 12, DescLightRain),
     Slot(-25, 40, 100, 5, DescLightSnow)}

\* up to three consecutive slots, the first at slot 6 or 7 of day 0, so
\* that the list spans one or two days
FiveDayResponses ==
    {[list |-> [i \in 1..Len(kinds) |->
                    [dt |-> start + i - 1, temp |-> kinds[i].temp, wind |-> kinds[i].wind,
                     pop |-> kinds[i].pop, rain |-> kinds[i].rain,
                     description |-> kinds[i].description]]] :
        start \in {6, 7}, kinds \in UNION {[1..n -> SlotKinds] : n \in 0..3}}

FetchInit ==
    /\ UiMounted /\ savedCities = <<>>
    /\ provider = "local-rules"
    /\ current = Null
    /\ forecast = <<>>
    /\ pc = "idle"
    /\ mlResponse = [kind |-> "none"]
    /\ insights = Null
    /\ error = "none"
    /\ args = [fn |-> "fetchForecast"]
    /\ result = Null
    /\ requests = <<>>

\* fetchForecast enters its try block: the One Call request goes out
FetchForecast ==
    /\ pc = "idle"
    /\ args.fn = "fetchForecast"
    /\ requests' = <<[endpoint |-> "onecall", outcome |-> "pending", data |-> Null]>>
    /\ pc' = "onecall"
    /\ UNCHANGED <<uiVars, provider, current, forecast, mlResponse, insights, error, args, result>>

OneCallResolves ==
    /\ pc = "onecall"
    /\ \E data \in OneCallResponses :
        /\ requests' = [requests EXCEPT ![1] =
                            [endpoint |-> "onecall", outcome |-> "ok", data |-> data]]
        /\ result' = [days |-> fetchOneCallForecast(data)]
    /\ pc' = "done"
    /\ UNCHANGED <<uiVars, provider, current, forecast, mlResponse, insights, error, args>>

\* fetchForecast without its catch block: the One Call failure propagates
OneCallRejectsUncaught ==
    /\ pc = "onecall"
    /\ requests' = <<[endpoint |-> "onecall", outcome |-> "failed", data |-> Null]>>
    /\ error' = "forecast request failed"
    /\ pc' = "failed"
    /\ UNCHANGED <<uiVars, provider, current, forecast, mlResponse, insights, args, result>>

\* the catch block: the 5-day request goes out
OneCallRejects ==
    /\ pc = "onecall"
    /\ requests' = <<[endpoint |-> "onecall", outcome |-> "failed", data |-> Null],
                     [endpoint |-> "forecast", outcome |-> "pending", data |-> Null]>>
    /\ pc' = "fiveday"
    /\ UNCHANGED <<uiVars, provider, current, forecast, mlResponse, insights, error, args, result>>

FiveDayResolves ==
    /\ pc = "fiveday"
    /\ \E data \in FiveDayResponses :
        /\ requests' = [requests EXCEPT ![2] =
                            [endpoint |-> "forecast", outcome |-> "ok", data |-> data]]
        /\ result' = [days |-> fetchFiveDayForecast(data)]
    /\ pc' = "done"
    /\ UNCHANGED <<uiVars, provider, current, forecast, mlResponse, insights, error, args>>

\* nothing catches the second failure: it propagates to the caller
FiveDayRejects ==
    /\ pc = "fiveday"
    /\ requests' = [requests EXCEPT ![2] =
                        [endpoint |-> "forecast", outcome |-> "failed", data |-> Null]]
    /\ error' = "forecast request failed"
    /\ pc' = "failed"
    /\ UNCHANGED <<uiVars, provider, current, forecast, mlResponse, insights, args, result>>

FetchNext ==
    \/ FetchForecast
    \/ OneCallResolves
    \/ OneCallRejects
    \/ FiveDayResolves
    \/ FiveDayRejects

FetchSpec == FetchInit /\ [][FetchNext]_vars

\* ------------------------------------------------------------------------
\*  useWeather (the search hook) and App.handleSearch
\* ------------------------------------------------------------------------
\* An async call that was started and has not finished is a record in
\* calls; id numbers the calls in the order they started.  Every object
\* that a search creates carries the id of that search in its field
\* "search": this stands for the identity of the JavaScript object.
\* error is "none" for null.  City names are sequences of characters.
Paris == <<"P", "a", "r", "i", "s">>
ParisLower == <<"p", "a", "r", "i", "s">>
Tokyo == <<"T", "o", "k", "y", "o">>
London == <<"L", "o", "n", "d", "o", "n">>
Dubai == <<"D", "u", "b", "a", "i">>
Sydney == <<"S", "y", "d", "n", "e", "y">>
Berlin == <<"B", "e", "r", "l", "i", "n">>
NewYork == <<"N", "e", "w", " ", "Y", "o", "r", "k">>
NYC == <<"N", "Y", "C">>

\* the names the weather provider knows, as it spells them (data.name)
ProviderNames == {Paris, Tokyo, London, Dubai, Sydney, Berlin, NewYork}

\* data.name for the query q: the provider ignores case and knows NYC as
\* an abbreviation
ProviderName(q) ==
    IF toLowerCase(q) = toLowerCase(NYC) THEN NewYork
    ELSE CHOOSE n \in ProviderNames : toLowerCase(n) = toLowerCase(q)

\* the normalised object fetchCurrentWeather resolves to
CurrentWeatherOf(id, q) ==
    [search |-> id, city |-> ProviderName(q), coord |-> toLowerCase(ProviderName(q))]

\* the normalised daily list fetchForecast resolves to
ForecastOf(id, lat) ==
    <<[search |-> id, coord |-> lat, dt |-> 0], [search |-> id, coord |-> lat, dt |-> 1]>>

\* what getFullAnalysis(cur, fc) resolves to
FullAnalysisOf(id, cur, fc) ==
    [insights |-> [search |-> id, city |-> cur.city],
     trends   |-> [search |-> id, available |-> Len(fc) >= 2, totalDays |-> Len(fc)]]

\* err.response?.status of a rejection; 0 stands for an error without a
\* response (network failure, exception thrown by the analysis)
ErrorStatuses == {404, 401, 500, 0}

\* the message the catch block chooses
SearchErrorMessage(status) ==
    IF status = 404 THEN "City not found. Please check the spelling."
    ELSE IF status = 401 THEN "Invalid API key. Add your key to the .env file."
    ELSE "Something went wrong. Please try again later."

SearchCalls == {c \in calls : c.fn = "search"}

\* search(city) up to its first await
search(city) ==
    IF city = <<>> THEN UNCHANGED <<loading, error, calls, started>>
    ELSE /\ loading' = TRUE
         /\ error' = "none"
         /\ started' = started + 1
         /\ calls' = calls \cup {[id |-> started + 1, fn |-> "search", city |-> city,
                                  pc |-> "fetchCurrentWeather", cur |-> Null, fc |-> <<>>]}

\* the updater comparing the names as they are spelled
RecentAfterCaseSensitive(prev, city) ==
    LET Other(c) == c # city
        list == <<city>> \o SelectSeq(prev, Other)
    IN  SubSeq(list, 1, Min(5, Len(list)))

\* [city, ...filtered].slice(0, 5)
RecentAfter(prev, city) ==
    LET Other(c) == toLowerCase(c) # toLowerCase(city)
        list == <<city>> \o SelectSeq(prev, Other)
    IN  SubSeq(list, 1, Min(5, Len(list)))

\* App.handleSearch(city): the sidebar form, a recent-search or popular-city
\* button, or a saved-city card
HandleSearch(city) ==
    /\ search(city)
    /\ activeNav' = "weather"
    /\ recentSearches' = RecentAfter(recentSearches, city)
    /\ UNCHANGED <<provider, current, forecast, pc, mlResponse, insights, args, result,
                   requests, trends, question, conversation, isTyping, savedCities,
                   cityData, addInput, showAdd, fetchError>>

\* Sidebar: onNavChange(id)
NavChange(id) ==
    /\ activeNav' = id
    /\ UNCHANGED <<provider, current, forecast, pc, mlResponse, insights, error, args,
                   result, requests, trends, loading, recentSearches, question,
                   conversation, isTyping, savedCities, cityData, addInput, showAdd,
                   fetchError, calls, started>>

\* await fetchCurrentWeather(city) resolves; setCurrent(cur)
CurrentWeatherResolves(c) ==
    /\ c \in SearchCalls
    /\ c.pc = "fetchCurrentWeather"
    /\ LET cur == CurrentWeatherOf(c.id, c.city)
       IN  /\ current' = cur
           /\ calls' = (calls \ {c}) \cup {[c EXCEPT !.pc = "fetchForecast", !.cur = cur]}
    /\ UNCHANGED <<provider, forecast, pc, mlResponse, insights, error, args, result,
                   requests, trends, loading, recentSearches, question, conversation,
                   isTyping, savedCities, cityData, addInput, showAdd, fetchError,
                   activeNav, started>>

\* await fetchForecast(lat, lon) resolves; setForecast(fc)
ForecastResolves(c) ==
    /\ c \in SearchCalls
    /\ c.pc = "fetchForecast"
    /\ LET fc == ForecastOf(c.id, c.cur.coord)
       IN  /\ forecast' = fc
           /\ calls' = (calls \ {c}) \cup {[c EXCEPT !.pc = "getFullAnalysis", !.fc = fc]}
    /\ UNCHANGED <<provider, current, pc, mlResponse, insights, error, args, result,
                   requests, trends, loading, recentSearches, question, conversation,
                   isTyping, savedCities, cityData, addInput, showAdd, fetchError,
                   activeNav, started>>

\* await getFullAnalysis(cur, fc) resolves; setInsights(ai); setTrends(tr);
\* finally setLoading(false)
FullAnalysisResolves(c) ==
    /\ c \in SearchCalls
    /\ c.pc = "getFullAnalysis"
    /\ LET full == FullAnalysisOf(c.id, c.cur, c.fc)
       IN  /\ insights' = full.insights
           /\ trends' = full.trends
    /\ loading' = FALSE
    /\ calls' = calls \ {c}
    /\ UNCHANGED <<provider, current, forecast, pc, mlResponse, error, args, result,
                   requests, recentSearches, question, conversation, isTyping,
                   savedCities, cityData, addInput, showAdd, fetchError, activeNav,
                   started>>

\* the catch block leaving what the earlier steps of the search had set
SearchRejectsKeepsData(c, status) ==
    /\ c \in SearchCalls
    /\ c.pc = "getFullAnalysis" => status = 0
    /\ error' = SearchErrorMessage(status)
    /\ loading' = FALSE
    /\ calls' = calls \ {c}
    /\ UNCHANGED <<provider, current, forecast, insights, trends, pc, mlResponse, args,
                   result, requests, recentSearches, question, conversation, isTyping,
                   savedCities, cityData, addInput, showAdd, fetchError, activeNav,
                   started>>

\* one of the three awaits rejects: the catch block, then finally.  The
\* analysis throws plain Errors, which carry no response.
SearchRejects(c, status) ==
    /\ c \in SearchCalls
    /\ c.pc = "getFullAnalysis" => status = 0
    /\ error' = SearchErrorMessage(status)
    /\ current' = Null
    /\ forecast' = <<>>
    /\ insights' = Null
    /\ trends' = Null
    /\ loading' = FALSE
    /\ calls' = calls \ {c}
    /\ UNCHANGED <<provider, pc, mlResponse, args, result, requests, recentSearches,
                   question, conversation, isTyping, savedCities, cityData, addInput,
                   showAdd, fetchError, activeNav, started>>

SearchInit ==
    /\ UiMounted /\ savedCities = <<>>
    /\ provider = "local-rules"
    /\ current = Null
    /\ forecast = <<>>
    /\ pc = "idle"
    /\ mlResponse = [kind |-> "none"]
    /\ insights = Null
    /\ error = "none"
    /\ args = NoArgs
    /\ result = Null
    /\ requests = <<>>

\* searches that may overlap
MaxSearches == 2

OverlapCities == {Paris, Tokyo}

NavIds == {"weather", "cities", "map", "trends", "settings"}

OverlapNext ==
    \/ \E city \in OverlapCities : started < MaxSearches /\ HandleSearch(city)
    \/ \E id \in NavIds : NavChange(id)
    \/ \E c \in calls : CurrentWeatherResolves(c)
    \/ \E c \in calls : ForecastResolves(c)
    \/ \E c \in calls : FullAnalysisResolves(c)
    \/ \E c \in calls, status \in ErrorStatuses : SearchRejects(c, status)

OverlapSpec == SearchInit /\ [][OverlapNext]_vars

\* one search at a time: the next one starts after the previous finished
MaxRecent == 6

RecentCities == {Paris, ParisLower, Tokyo, London, Dubai, Sydney, Berlin}

SoloNext ==
    \/ \E city \in RecentCities :
            started < MaxRecent /\ SearchCalls = {} /\ HandleSearch(city)
    \/ \E c \in calls : CurrentWeatherResolves(c)
    \/ \E c \in calls : ForecastResolves(c)
    \/ \E c \in calls : FullAnalysisResolves(c)
    \/ \E c \in calls, status \in ErrorStatuses : SearchRejects(c, status)

SoloSpec == SearchInit /\ [][SoloNext]_vars

\* ------------------------------------------------------------------------
\*  AiAssistantChat: the chat panel while it is mounted
\* ------------------------------------------------------------------------
\* the texts of the quick-action chips
quickActions ==
    <<<<"S", "h", "o", "u", "l", "d", " ", "I", " ", "g", "o", " ", "o", "u", "t", "s", "i", "d", "e", "?">>,
      <<"D", "o", " ", "I", " ", "n", "e", "e", "d", " ", "a", "n", " ", "u", "m", "b", "r", "e", "l", "l", "a", "?">>,
      <<"W", "h", "a", "t", " ", "s", "h", "o", "u", "l", "d", " ", "I", " ", "w", "e", "a", "r", "?">>,
      <<"I", "s", " ", "i", "t", " ", "s", "a", "f", "e", " ", "t", "o", " ", "t", "r", "a", "v", "e", "l", "?">>>>

\* !q.trim(): nothing but white space
TrimIsEmpty(q) == \A i \in 1..Len(q) : q[i] = " "

AskCalls == {c \in calls : c.fn = "handleAsk"}

\* handleAsk(q) up to the await: the user message is appended and the
\* 600 ms timer is started
handleAsk(q) ==
    IF TrimIsEmpty(q)
    THEN UNCHANGED <<conversation, question, isTyping, calls, started>>
    ELSE /\ conversation' = Append(conversation, [role |-> "user", text |-> q])
         /\ question' = <<>>
         /\ isTyping' = TRUE
         /\ started' = started + 1
         /\ calls' = calls \cup {[id |-> started + 1, fn |-> "handleAsk", q |-> q]}

\* the chat input's onChange
TypeQuestion(text) ==
    /\ question' = text
    /\ UNCHANGED <<provider, current, forecast, pc, mlResponse, insights, error, args,
                   result, requests, trends, loading, recentSearches, conversation,
                   isTyping, savedCities, cityData, addInput, showAdd, fetchError,
                   activeNav, calls, started>>

\* the send button, disabled while the input is blank or isTyping
SendButton ==
    /\ ~TrimIsEmpty(question)
    /\ ~isTyping
    /\ handleAsk(question)
    /\ UNCHANGED <<provider, current, forecast, pc, mlResponse, insights, error, args,
                   result, requests, trends, loading, recentSearches, savedCities,
                   cityData, addInput, showAdd, fetchError, activeNav>>

\* Enter in the chat input: handleAsk() with the default q = question
EnterKey ==
    /\ handleAsk(question)
    /\ UNCHANGED <<provider, current, forecast, pc, mlResponse, insights, error, args,
                   result, requests, trends, loading, recentSearches, savedCities,
                   cityData, addInput, showAdd, fetchError, activeNav>>

\* a quick-action chip
ChipClick(i) ==
    /\ handleAsk(quickActions[i])
    /\ UNCHANGED <<provider, current, forecast, pc, mlResponse, insights, error, args,
                   result, requests, trends, loading, recentSearches, savedCities,
                   cityData, addInput, showAdd, fetchError, activeNav>>

\* the timer of call c fires: the rest of handleAsk
AnswerArrives(c) ==
    /\ c \in AskCalls
    /\ LET answer == askAssistant(c.q, insights, trends, current, forecast)
       IN  conversation' = Append(conversation, [role |-> "assistant", text |-> answer])
    /\ isTyping' = FALSE
    /\ calls' = calls \ {c}
    /\ UNCHANGED <<provider, current, forecast, pc, mlResponse, insights, error, args,
                   result, requests, trends, loading, recentSearches, question,
                   savedCities, cityData, addInput, showAdd, fetchError, activeNav,
                   started>>

\* the "Clear chat" button, shown while the conversation is not empty
ClearChat ==
    /\ Len(conversation) > 0
    /\ conversation' = <<>>
    /\ UNCHANGED <<provider, current, forecast, pc, mlResponse, insights, error, args,
                   result, requests, trends, loading, recentSearches, question, isTyping,
                   savedCities, cityData, addInput, showAdd, fetchError, activeNav,
                   calls, started>>

\* what the user types into the chat input
TypedQuestions ==
    {<<" ">>, <<"W","i","l","l"," ","i","t"," ","r","a","i","n","?">>}

\* asks in one session of the panel
MaxAsks == 2

\* the panel renders only with insights and a current reading: a search
\* for a city with mild weather has finished
ChatInit ==
    /\ provider = "local-rules"
    /\ pc = "idle"
    /\ mlResponse = [kind |-> "none"]
    /\ error = "none"
    /\ args = NoArgs
    /\ result = Null
    /\ requests = <<>>
    /\ current = MildReading
    /\ forecast = DailyForecast(4, <<MildDay, DipDay, StormDay>>)
    /\ insights = analyseWeather(current, forecast, TRUE)
    /\ trends = analyseWeatherTrends(forecast, current)
    /\ loading = FALSE
    /\ recentSearches = <<Paris>>
    /\ question = <<>>
    /\ conversation = <<>>
    /\ isTyping = FALSE
    /\ savedCities = <<>>
    /\ cityData = {}
    /\ addInput = <<>>
    /\ showAdd = FALSE
    /\ fetchError = "none"
    /\ activeNav = "weather"
    /\ calls = {}
    /\ started = 0

ChatNext ==
    \/ \E text \in TypedQuestions : TypeQuestion(text)
    \/ started < MaxAsks /\ SendButton
    \/ started < MaxAsks /\ EnterKey
    \/ \E i \in 1..Len(quickActions) : started < MaxAsks /\ ChipClick(i)
    \/ \E c \in calls : AnswerArrives(c)
    \/ ClearChat

ChatSpec == ChatInit /\ [][ChatNext]_vars

\* ------------------------------------------------------------------------
\*  CitiesView: the saved cities while the view is mounted.  The refresh of
\*  the cards' weather (fetchAllCities) does not touch savedCities and is
\*  left out; cityData holds the names that an add stored data for.
\* ------------------------------------------------------------------------
\* the list used when localStorage holds none
DEFAULT_CITIES == <<London, Tokyo, NewYork, Paris, Sydney>>

\* String.prototype.trim for the blank character
RECURSIVE trim(_)
trim(s) ==
    IF s = <<>> THEN s
    ELSE IF Head(s) = " " THEN trim(Tail(s))
    ELSE IF s[Len(s)] = " " THEN trim(SubSeq(s, 1, Len(s) - 1))
    ELSE s

AddCalls == {c \in calls : c.fn = "handleAddCity"}

\* savedCities.some((c) => c.toLowerCase() === city.toLowerCase())
AlreadySaved(city) ==
    \E i \in 1..Len(savedCities) : toLowerCase(savedCities[i]) = toLowerCase(city)

\* the provider answers 404 for a name it does not know
KnownCity(q) ==
    \/ toLowerCase(q) = toLowerCase(NYC)
    \/ \E n \in ProviderNames : toLowerCase(n) = toLowerCase(q)

\* the "Add City" button
ToggleAdd ==
    /\ showAdd' = ~showAdd
    /\ UNCHANGED <<provider, current, forecast, pc, mlResponse, insights, error, args,
                   result, requests, trends, loading, recentSearches, question,
                   conversation, isTyping, savedCities, cityData, addInput, fetchError,
                   activeNav, calls, started>>

\* the add-city input's onChange
TypeCity(text) ==
    /\ showAdd
    /\ addInput' = text
    /\ UNCHANGED <<provider, current, forecast, pc, mlResponse, insights, error, args,
                   result, requests, trends, loading, recentSearches, question,
                   conversation, isTyping, savedCities, cityData, showAdd, fetchError,
                   activeNav, calls, started>>

\* the form's Cancel button
CancelAdd ==
    /\ showAdd
    /\ showAdd' = FALSE
    /\ addInput' = <<>>
    /\ UNCHANGED <<provider, current, forecast, pc, mlResponse, insights, error, args,
                   result, requests, trends, loading, recentSearches, question,
                   conversation, isTyping, savedCities, cityData, fetchError, activeNav,
                   calls, started>>

\* handleAddCity up to its await: the form is submitted
HandleAddCity ==
    /\ showAdd
    /\ LET city == trim(addInput)
       IN  IF city = <<>>
           THEN UNCHANGED <<fetchError, calls, started>>
           ELSE IF AlreadySaved(city)
           THEN /\ fetchError' = "City already in list"
                /\ UNCHANGED <<calls, started>>
           ELSE /\ fetchError' = "none"
                /\ started' = started + 1
                /\ calls' = calls \cup {[id |-> started + 1, fn |-> "handleAddCity",
                                         city |-> city]}
    /\ UNCHANGED <<provider, current, forecast, pc, mlResponse, insights, error, args,
                   result, requests, trends, loading, recentSearches, question,
                   conversation, isTyping, savedCities, cityData, addInput, showAdd,
                   activeNav>>

\* await fetchCurrentWeather(city) resolves: the city is appended under
\* the name the provider returned
AddCityResolves(c) ==
    /\ c \in AddCalls
    /\ KnownCity(c.city)
    /\ LET data == CurrentWeatherOf(c.id, c.city)
       IN  /\ savedCities' = Append(savedCities, data.city)
           /\ cityData' = cityData \cup {data.city}
    /\ addInput' = <<>>
    /\ showAdd' = FALSE
    /\ calls' = calls \ {c}
    /\ UNCHANGED <<provider, current, forecast, pc, mlResponse, insights, error, args,
                   result, requests, trends, loading, recentSearches, question,
                   conversation, isTyping, fetchError, activeNav, started>>

\* await fetchCurrentWeather(city) rejects
AddCityRejects(c) ==
    /\ c \in AddCalls
    /\ fetchError' = "City not found. Check spelling."
    /\ calls' = calls \ {c}
    /\ UNCHANGED <<provider, current, forecast, pc, mlResponse, insights, error, args,
                   result, requests, trends, loading, recentSearches, question,
                   conversation, isTyping, savedCities, cityData, addInput, showAdd,
                   activeNav, started>>

\* a card's remove button
removeCity(city) ==
    /\ \E i \in 1..Len(savedCities) : savedCities[i] = city
    /\ LET Other(c) == c # city
       IN  savedCities' = SelectSeq(savedCities, Other)
    /\ cityData' = cityData \ {city}
    /\ UNCHANGED <<provider, current, forecast, pc, mlResponse, insights, error, args,
                   result, requests, trends, loading, recentSearches, question,
                   conversation, isTyping, addInput, showAdd, fetchError, activeNav,
                   calls, started>>

\* what the user types into the add-city input
Atlantis == <<"A", "t", "l", "a", "n", "t", "i", "s">>
BerlinPadded == <<" ", "B", "e", "r", "l", "i", "n", " ">>
AddInputs == {<<" ">>, BerlinPadded, NYC, ParisLower, Atlantis}

\* the cards whose remove button is used
RemovedCities == {NewYork, Paris, Berlin}

\* add-city submissions that reach the weather provider
MaxAdds == 2

CitiesInit ==
    /\ UiMounted
    /\ savedCities = DEFAULT_CITIES
    /\ provider = "local-rules"
    /\ current = Null
    /\ forecast = <<>>
    /\ pc = "idle"
    /\ mlResponse = [kind |-> "none"]
    /\ insights = Null
    /\ error = "none"
    /\ args = NoArgs
    /\ result = Null
    /\ requests = <<>>

CitiesNext ==
    \/ ToggleAdd
    \/ \E text \in AddInputs : TypeCity(text)
    \/ CancelAdd
    \/ started < MaxAdds /\ HandleAddCity
    \/ \E c \in calls : AddCityResolves(c)
    \/ \E c \in calls : AddCityRejects(c)
    \/ \E city \in RemovedCities : removeCity(city)

CitiesSpec == CitiesInit /\ [][CitiesNext]_vars

\* ------------------------------------------------------------------------
\*  Properties
\* ------------------------------------------------------------------------
Abs(x) == IF x < 0 THEN -x ELSE x

FactorOrder == <<"Temperature", "Humidity", "Wind Speed", "Rain Probability", "Visibility">>
FixedWeights == <<35, 25, 20, 12, 8>>
Confidences == {"high", "medium", "low"}

ValidReading(cur, fc) ==
    /\ cur.humidity \in 0..100
    /\ cur.visibility \in 0..10000
    /\ cur.windSpeed >= 0
    /\ \A i \in 1..Len(fc) : fc[i].pop \in 0..100

\* C1: for every valid reading (humidity and rain probability in 0..100,
\* visibility in 0..10 km, wind >= 0, any temperature) analyseWeather returns
\* an integer comfort score in [0,100] and five factor scores in [0,100].
ComfortAndScoresInRange ==
    (pc = "analysed" /\ ValidReading(current, forecast)) =>
        /\ insights.comfort \in 0..100
        /\ Len(insights.comfortBreakdown) = 5
        /\ \A i \in 1..5 :
              /\ insights.comfortBreakdown[i].score >= 0
              /\ insights.comfortBreakdown[i].score <= 10000

\* a reading beyond badHigh / badLow on every factor: all scores and the comfort are 0
WitnessAllFactorsWorst ==
    /\ pc = "analysed"
    /\ current.temp > 50
    /\ current.windSpeed > 300
    /\ insights.comfort = 0
    /\ \A i \in 1..5 : insights.comfortBreakdown[i].score = 0

\* C2: the reading {temp 22, feelsLike 22, humidity 60, wind 3.5 m/s,
\* visibility 10 km, rain 0, snow 0} with today's pop 15 gets a comfort score
\* of about 75..84, goOutside.level "yes", umbrella.needed false and an
\* outfit list that starts with the t-shirt / light-top item.
EndToEndScenario ==
    (/\ pc = "analysed"
     /\ current.temp = 22 /\ current.feelsLike = 22 /\ current.humidity = 60
     /\ current.windSpeed = 35 /\ current.visibility = 10000
     /\ current.rain = 0 /\ current.snow = 0
     /\ Len(forecast) >= 1 /\ forecast[1].pop = 15)
    =>
        /\ insights.comfort \in 75..84
        /\ insights.goOutside.level = "yes"
        /\ insights.umbrella.needed = FALSE
        /\ insights.outfit[1] = "T-shirt or light top"

ContributionIsScoreTimesWeight ==
    (pc = "done" /\ insights # Null) =>
        \A i \in 1..Len(insights.comfortBreakdown) :
            LET e == insights.comfortBreakdown[i] IN
            Abs(100 * e.contribution - e.score * e.weight) <= 50

\* C5: Insights converted from a predictive-service response have the shape
\* of rule-engine Insights: comfort 85/60/35 for High/Medium/Low, 5 breakdown
\* entries in the fixed order with the 5 fixed weights, a dominant factor that
\* names one of those five factors, and a confidence in {high, medium, low}
\* on goOutside, umbrella, travel and (when present) uv.
ConvertedInsightsShape ==
    (pc = "done" /\ mlResponse.kind = "converted") =>
        LET b == insights.comfortBreakdown IN
        /\ insights.comfort = comfortMap[mlResponse.body.comfort_level]
        /\ Len(b) = 5
        /\ [i \in 1..5 |-> b[i].factor] = FactorOrder
        /\ [i \in 1..5 |-> b[i].weight] = FixedWeights
        /\ \E i \in 1..5 : insights.dominantFactor.factor = FactorOrder[i]
        /\ insights.goOutside.confidence \in Confidences
        /\ insights.umbrella.confidence \in Confidences
        /\ insights.travel.confidence \in Confidences
        /\ insights.uvAdvice # Null => insights.uvAdvice.confidence \in Confidences

\* C6: with the REST_API provider, a failure of the predictive-service call
\* (network error, non-OK status, unreadable or unconvertible response) is
\* caught in callPythonMLAPI: no error reaches getFullAnalysis and the
\* insights are those of analyseWeather(current, forecast).
FailedCalls == {"network-error", "http-error", "bad-json", "unconvertible"}

FallbackOnFailure ==
    /\ provider = AI_PROVIDERS.REST_API => error = "none"
    /\ (provider = AI_PROVIDERS.REST_API /\ pc = "done" /\ mlResponse.kind \in FailedCalls) =>
          \E fp \in BOOLEAN : insights = analyseWeather(current, forecast, fp)

\* the service answered 500 and the call finished with rule-engine insights
WitnessHttpErrorFallback ==
    /\ provider = AI_PROVIDERS.REST_API
    /\ pc = "done"
    /\ mlResponse.kind = "http-error"
    /\ mlResponse.status = 500
    /\ insights # Null

\* C7: goOutsideAdvice tests the hard overrides in the order snow > 2 mm or
\* blizzard, rain > 5 mm or "heavy rain" or "thunderstorm", wind > 15 m/s,
\* temp > 42, temp < -15: level is "no" (confidence high) exactly when some
\* override holds, and the text is that of the first override that holds,
\* whatever the comfort score; snow = 3 with wind = 20 gives the snow message.
GoOutsideOverrides(a) ==
    <<[holds |-> a.snow > 20 \/ includes(a.desc, KwBlizzard),
       text  |-> "Heavy snow outside - stay indoors if possible."],
      [holds |-> a.rain > 50 \/ includes(a.desc, KwHeavyRain) \/ includes(a.desc, KwThunderstorm),
       text  |-> "Heavy rain / storm expected. Best to stay inside."],
      [holds |-> a.wind > 150,
       text  |-> "Dangerously high winds. Avoid going outside."],
      [holds |-> a.temp > 42,
       text  |-> "Extreme heat! Stay in air-conditioning."],
      [holds |-> a.temp < -15,
       text  |-> "Extreme cold! Risk of frostbite - stay warm indoors."]>>

GoOutsideOverridePriority ==
    (pc = "returned" /\ args.fn = "goOutsideAdvice") =>
        LET o == GoOutsideOverrides(args) IN
        /\ result.level = "no" <=> \E i \in 1..5 : o[i].holds
        /\ \A i \in 1..5 :
              (o[i].holds /\ \A j \in 1..(i - 1) : ~o[j].holds) =>
                  /\ result.text = o[i].text
                  /\ result.confidence = "high"
        /\ (args.snow = 30 /\ args.wind = 200) => result.text = o[1].text

\* snow 3 mm and wind 20 m/s under the best comfort score: the snow message wins
WitnessSnowBeatsWind ==
    /\ pc = "returned"
    /\ args.fn = "goOutsideAdvice"
    /\ args.snow > 20 /\ args.wind = 200 /\ args.comfort = 100
    /\ result.level = "no"
    /\ result.text = "Heavy snow outside - stay indoors if possible."

\* C8: umbrellaAdvice: with rain = 0 and no thunderstorm in the text, needed
\* is monotone non-decreasing in pop (pop < 40 not needed, 40 <= pop < 70
\* needed with medium confidence, pop >= 70 needed with high confidence); in
\* general needed holds exactly when the text mentions thunderstorm, or
\* pop >= 40, or rain > 2 mm.
UmbrellaTiers ==
    (pc = "returned" /\ args.fn = "umbrellaAdvice") =>
        LET thunder == includes(args.desc, KwThunderstorm) IN
        /\ result.needed <=> (thunder \/ args.pop >= 40 \/ args.rain > 20)
        /\ (args.rain = 0 /\ ~thunder) =>
              /\ args.pop < 40 => ~result.needed
              /\ (args.pop >= 40 /\ args.pop < 70) =>
                    (result.needed /\ result.confidence = "medium")
              /\ args.pop >= 70 => (result.needed /\ result.confidence = "high")
              /\ \A p \in UmbrellaPops :
                    (p >= args.pop /\ result.needed) => umbrellaAdvice(p, 0, args.desc).needed

\* pop exactly 40 with no rain and no thunderstorm: needed, medium
WitnessUmbrellaMediumTier ==
    /\ pc = "returned"
    /\ args.fn = "umbrellaAdvice"
    /\ args.pop = 40 /\ args.rain = 0
    /\ ~includes(args.desc, KwThunderstorm)
    /\ result.needed
    /\ result.confidence = "medium"

\* C9: travelAdvice counts the hazards among visibility < 2 km, wind > 12 m/s,
\* rain > 4 mm, snow > 1 mm and fog in the text: 2 or more -> not suitable,
\* high; exactly 1 -> not suitable, medium; none and comfort >= 65 -> suitable,
\* high; none and comfort < 65 -> suitable, medium.  suitable holds exactly
\* when there is no hazard.
TravelHazardCount(a) ==
    Cardinality({h \in {"visibility", "wind", "rain", "snow", "fog"} :
        \/ h = "visibility" /\ a.visibility < 2000
        \/ h = "wind" /\ a.wind > 120
        \/ h = "rain" /\ a.rain > 40
        \/ h = "snow" /\ a.snow > 10
        \/ h = "fog" /\ includes(a.desc, KwFog)})

TravelHazardTiers ==
    (pc = "returned" /\ args.fn = "travelAdvice") =>
        LET n == TravelHazardCount(args) IN
        /\ n >= 2 => (~result.suitable /\ result.confidence = "high")
        /\ n = 1 => (~result.suitable /\ result.confidence = "medium")
        /\ (n = 0 /\ args.comfort >= 65) => (result.suitable /\ result.confidence = "high")
        /\ (n = 0 /\ args.comfort < 65) => (result.suitable /\ result.confidence = "medium")
        /\ result.suitable <=> n = 0

\* snowfall just above 1 mm is the only hazard: not suitable, medium
WitnessSingleSnowHazard ==
    /\ pc = "returned"
    /\ args.fn = "travelAdvice"
    /\ args.snow = 11
    /\ TravelHazardCount(args) = 1
    /\ ~result.suitable
    /\ result.confidence = "medium"

\* C10 as stated: outfitRecommendation includes the rain-gear items exactly
\* when precipitation probability >= 50% or current rain > 0 mm or the
\* condition text mentions rain.
HasRainGear(items) ==
    /\ \E i \in 1..Len(items) : items[i] = "Waterproof jacket or umbrella"
    /\ \E i \in 1..Len(items) : items[i] = "Waterproof shoes / boots"

HasAnyRainGear(items) ==
    \E i \in 1..Len(items) :
        items[i] \in {"Waterproof jacket or umbrella", "Waterproof shoes / boots"}

RainGearWhenAnyRain ==
    (pc = "returned" /\ args.fn = "outfitRecommendation") =>
        (HasRainGear(result.items) <=>
            (args.pop >= 50 \/ args.rain > 0 \/ includes(args.desc, KwRain)))

\* C10 amended: outfitRecommendation includes the rain-gear items (both of
\* them) exactly when precipitation probability >= 50% or current rain is
\* above 1 mm or the condition text mentions rain; otherwise neither item.
RainGearWhenRainAboveOne ==
    (pc = "returned" /\ args.fn = "outfitRecommendation") =>
        LET cond == args.pop >= 50 \/ args.rain > 10 \/ includes(args.desc, KwRain) IN
        /\ cond => HasRainGear(result.items)
        /\ ~cond => ~HasAnyRainGear(result.items)

\* rain of 1.1 mm alone (low pop, no rain in the text) brings the rain gear
WitnessRainGearFromRainAlone ==
    /\ pc = "returned"
    /\ args.fn = "outfitRecommendation"
    /\ args.rain = 11 /\ args.pop < 50
    /\ ~includes(args.desc, KwRain)
    /\ HasRainGear(result.items)

\* C11 (as stated): scoreTemperature returns exactly 100 at 18 and at 26,
\* strictly less than 100 for every temperature strictly outside [18, 26]
\* (17.9 included), and exactly 0 at or beyond -10 or 50.
ScoreTemperatureStrictOutsideBand ==
    (pc = "returned" /\ args.fn = "scoreTemperature") =>
        /\ (args.temp \in {180, 260} => result.score = 10000)
        /\ ((args.temp < 180 \/ args.temp > 260) => result.score < 10000)
        /\ ((args.temp <= -100 \/ args.temp >= 500) => result.score = 0)

\* C11 (amended): scoreTemperature returns exactly 100 at 18 and at 26,
\* strictly less than 100 for every temperature of 17.8 or below and of 26.1
\* or above, and exactly 0 at or beyond -10 or 50; at a resolution of 0.1
\* degree the score is 100 exactly from 17.9 to 26.0, the band edge 17.9
\* being rounded up to 100.
ScoreTemperatureRoundedBand ==
    (pc = "returned" /\ args.fn = "scoreTemperature") =>
        /\ (args.temp \in {180, 260} => result.score = 10000)
        /\ ((args.temp <= 178 \/ args.temp >= 261) => result.score < 10000)
        /\ (result.score = 10000 <=> args.temp \in 179..260)
        /\ ((args.temp <= -100 \/ args.temp >= 500) => result.score = 0)

\* 17.9 degrees was scored and got 100
WitnessJustBelowBandScoresFull ==
    /\ pc = "returned"
    /\ args.fn = "scoreTemperature"
    /\ args.temp = 179
    /\ result.score = 10000

\* C19: humidity is scored against a 35-65 % comfort range: every humidity
\* in [35, 65] gets the full score of 100.
HumidityComfortRange35To65 ==
    (pc = "returned" /\ args.fn = "scoreHumidity" /\ args.humidity \in 35..65) =>
        result.score = 10000

\* C12: the dominant factor is the breakdown entry with the minimum
\* score x weight, and among entries with equal products the earliest in the
\* order temperature, humidity, wind, rain, visibility.
DominantIsEarliestMinimum ==
    (pc = "analysed" /\ insights # Null) =>
        LET b == insights.comfortBreakdown
            product(i) == b[i].score * b[i].weight
            k == CHOOSE i \in 1..Len(b) :
                    \A j \in 1..Len(b) :
                        product(i) < product(j) \/ (product(i) = product(j) /\ i <= j)
        IN insights.dominantFactor.factor = b[k].factor

\* C13 (as stated): with scores [90, 90, 90, 10, 90] and the fixed weights
\* the dominant factor reported is wind.
DominantOfExampleIsWind ==
    (pc = "returned" /\ args.fn = "dominantFactor"
        /\ args.scores = <<9000, 9000, 9000, 1000, 9000>>) =>
        result.factor = "Wind Speed"

\* C13 (amended): with scores [90, 90, 90, 10, 90] and the fixed weights the
\* dominant factor reported is rain, the entry with the only low score: its
\* product 10 x 0.12 = 1.2 is the minimum (wind's is 18).
DominantOfExampleIsRain ==
    (pc = "returned" /\ args.fn = "dominantFactor"
        /\ args.scores = <<9000, 9000, 9000, 1000, 9000>>) =>
        result.factor = "Rain Probability"

\* the example breakdown was sorted and rain came out first
WitnessExampleReportsRain ==
    /\ pc = "returned"
    /\ args.fn = "dominantFactor"
    /\ args.scores = <<9000, 9000, 9000, 1000, 9000>>
    /\ result.factor = "Rain Probability"

InsightsWithId(tr, id) ==
    {i \in 1..Len(tr.insights) : tr.insights[i].id = id}

\* C14: analyseWeatherTrends returns {available: false, insights: []} when
\* the forecast is absent or has fewer than 2 days; for every forecast of 2
\* to 7 days it returns available: true with a summary and an insight list
\* that contains exactly one temp-trend, one rain-pattern, one best-day and
\* one activities insight.
TrendsAvailability ==
    (pc = "returned" /\ args.fn = "analyseWeatherTrends") =>
        IF args.forecast = "absent" \/ Len(forecast) < 2
        THEN result = [available |-> FALSE, insights |-> <<>>]
        ELSE /\ Len(forecast) \in 2..7
             /\ result.available = TRUE
             /\ DOMAIN result = {"available", "insights", "summary"}
             /\ result.summary.totalDays = Len(forecast)
             /\ result.summary.tempTrend \in {"warming", "cooling", "steady"}
             /\ \A id \in {"temp-trend", "rain-pattern", "best-day", "activities"} :
                    Cardinality(InsightsWithId(result, id)) = 1

\* a full 7-day forecast was analysed
WitnessSevenDayTrends ==
    /\ pc = "returned"
    /\ args.fn = "analyseWeatherTrends"
    /\ Len(forecast) = 7
    /\ result.available = TRUE
    /\ Len(result.insights) >= 4

HotRunOfThree(fc) ==
    \E i \in 1..(Len(fc) - 2) : \A j \in i..(i + 2) : fc[j].tempMax >= 35

MaxTemps(fc) == [i \in 1..Len(fc) |-> fc[i].tempMax]

ColdDrops(fc) == {i \in 2..Len(fc) : fc[i - 1].tempMax - fc[i].tempMax >= 10}

StormIndices(fc) == {i \in 1..Len(fc) : fc[i].pop >= 70 /\ fc[i].windSpeed > 80}

First(S) == CHOOSE i \in S : \A j \in S : i <= j

IntentOrder ==
    <<"goOutside", "umbrella", "travel", "outfit", "comfort", "weekend", "tomorrow", "uvSun">>

QuestionWearTomorrow ==
    <<"W","h","a","t"," ","s","h","o","u","l","d"," ","I"," ","w","e","a","r"," ","t","o","m","o","r","r","o","w","?">>

QuestionOnSunday == <<"o","n"," ","S","u","n","d","a","y","?">>

\* C16: detectIntent returns the first intent, in the declared order
\* goOutside, umbrella, travel, outfit, comfort, weekend, tomorrow, uvSun,
\* one of whose patterns matches the question, and general when none does:
\* "What should I wear tomorrow?" is outfit, and a question that matches
\* both weekend and the uvSun pattern "sun" (one containing "sunday") is
\* weekend.
FirstMatchingIntentWins ==
    (pc = "returned" /\ args.fn = "detectIntent") =>
        LET q == toLowerCase(args.question)
            matching == {k \in 1..8 :
                            /\ INTENT_PATTERNS[k].intent = IntentOrder[k]
                            /\ SomePatternMatches(INTENT_PATTERNS[k].patterns, q)}
        IN  /\ \A k \in 1..8 : INTENT_PATTERNS[k].intent = IntentOrder[k]
            /\ matching = {} => result.intent = "general"
            /\ \A k \in matching :
                    (\A m \in matching : k <= m) => result.intent = IntentOrder[k]
            /\ args.question = QuestionWearTomorrow => result.intent = "outfit"
            /\ args.question = QuestionOnSunday =>
                    /\ test(<< <<"s","u","n">> >>, q)
                    /\ result.intent = "weekend"

\* "What should I wear tomorrow?", which matches outfit and tomorrow, was
\* classified as outfit
WitnessWearTomorrowIsOutfit ==
    /\ pc = "returned"
    /\ args.fn = "detectIntent"
    /\ args.question = QuestionWearTomorrow
    /\ result.intent = "outfit"

\* C17 (as stated): askAssistant returns the fixed "search for a city first"
\* prompt whenever insights or current is absent, never fails for any
\* combination of absent trends, forecast and uvAdvice, and absent insights
\* or current is the only condition under which the prompt is returned.
PromptOnlyWithoutInsightsOrCurrent ==
    (pc = "returned" /\ args.fn = "askAssistant") =>
        /\ "text" \in DOMAIN result
        /\ result = FixedPrompt <=> (insights = Null \/ current = Null)

\* C17 (amended): askAssistant returns the fixed "search for a city first"
\* prompt whenever insights or current is absent, never fails for any
\* combination of absent trends, forecast and uvAdvice, and the prompt is
\* returned exactly when the question is empty or insights or current is
\* absent.
PromptExactlyWithoutQuestionInsightsOrCurrent ==
    (pc = "returned" /\ args.fn = "askAssistant") =>
        /\ "text" \in DOMAIN result
        /\ result = FixedPrompt <=>
                (args.question = <<>> \/ insights = Null \/ current = Null)

\* an empty question was asked with insights and a current reading at hand
\* and got the prompt
WitnessEmptyQuestionGetsPrompt ==
    /\ pc = "returned"
    /\ args.fn = "askAssistant"
    /\ args.question = <<>>
    /\ insights # Null
    /\ current # Null
    /\ result = FixedPrompt

\* C18: fetchForecast always requests the One Call endpoint first; the
\* 5-day / 3-hour endpoint is requested only after the One Call request has
\* failed; when One Call fails and the 5-day request succeeds the caller
\* receives the aggregated 5-day result with no error, and fetchForecast
\* fails only when both requests fail.
FiveDayOnlyAfterOneCallFailed ==
    /\ Len(requests) <= 2
    /\ requests # <<>> => requests[1].endpoint = "onecall"
    /\ Len(requests) = 2 =>
            /\ requests[2].endpoint = "forecast"
            /\ requests[1].outcome = "failed"
    /\ (Len(requests) = 2 /\ requests[2].outcome = "ok") =>
            LET list == requests[2].data.list
                days == {list[i].dt \div 8 : i \in 1..Len(list)}
            IN  /\ pc = "done"
                /\ error = "none"
                /\ Len(result.days) = Cardinality(days)
                /\ \A k \in 1..Len(result.days) :
                        LET slots == {i \in 1..Len(list) : list[i].dt \div 8 = result.days[k].dt}
                        IN  /\ slots # {}
                            /\ result.days[k].uvi = <<>>
                            /\ \A i \in slots :
                                    /\ result.days[k].pop >= list[i].pop
                                    /\ 10 * result.days[k].tempMax + 5 >= list[i].temp
                                    /\ 10 * result.days[k].tempMin - 5 <= list[i].temp
                            /\ \E i \in slots : result.days[k].pop = list[i].pop
                            /\ result.days[k].rain = SeqSum([j \in 1..Len(list) |->
                                    IF j \in slots THEN list[j].rain ELSE 0])
    /\ error # "none" <=>
            /\ Len(requests) = 2
            /\ requests[1].outcome = "failed"
            /\ requests[2].outcome = "failed"

\* One Call failed, the 5-day request answered with slots of two days, and
\* the caller got two daily summaries and no error
WitnessFiveDayAfterFailure ==
    /\ pc = "done"
    /\ Len(requests) = 2
    /\ requests[1].outcome = "failed"
    /\ requests[2].outcome = "ok"
    /\ Len(result.days) = 2
    /\ error = "none"

\* the lowest index among the days whose score
\* 0.4 * tempScore + 0.4 * rainScore + 0.2 * windScore is maximal
EarliestBestDay(fc) ==
    First({i \in 1..Len(fc) :
            \A j \in 1..Len(fc) : OutdoorScore(fc[i]) >= OutdoorScore(fc[j])})

\* C21: findBestOutdoorDay picks a day whose score 0.4*tempScore +
\* 0.4*rainScore + 0.2*windScore is maximal over the forecast, and when
\* several days share the maximal score it picks the earliest of them; its
\* confidence is high when that score > 80, medium when > 60, else low.
BestDayIsEarliestMaximum ==
    (pc = "returned" /\ args.fn = "analyseWeatherTrends" /\ result.available) =>
        \A k \in InsightsWithId(result, "best-day") :
            LET i    == EarliestBestDay(forecast)
                best == forecast[i]
                ins  == result.insights[k]
            IN  /\ ins.title = (IF i = 1 THEN "Today" ELSE dayName(best.dt))
                /\ ins.temp = best.tempDay
                /\ ins.pop = best.pop
                /\ ins.confidence = (IF OutdoorScore(best) > 800 THEN "high"
                                     ELSE IF OutdoorScore(best) > 600 THEN "medium"
                                     ELSE "low")

\* warming, cooling or stable, as the temp-trend insight titles it
InsightDirection(ins) ==
    IF ins.title = "Warming Trend Ahead" THEN "warming"
    ELSE IF ins.title = "Cooling Trend Ahead" THEN "cooling"
    ELSE "stable"

\* average of the second half minus average of the first half, split at
\* ceil(n / 2), against +/-4
HalfAverageDirection(fc) ==
    LET n  == Len(fc)
        n1 == (n + 1) \div 2
        n2 == n - n1
        s1 == SeqSum([i \in 1..n1 |-> fc[i].tempDay])
        s2 == SeqSum([i \in 1..n2 |-> fc[n1 + i].tempDay])
    IN  IF s2 * n1 - s1 * n2 > 4 * n1 * n2 THEN "warming"
        ELSE IF s2 * n1 - s1 * n2 < -4 * n1 * n2 THEN "cooling"
        ELSE "stable"

\* last day minus first day, against +/-3
EndpointDirection(fc) ==
    IF fc[Len(fc)].tempDay - fc[1].tempDay > 3 THEN "warming"
    ELSE IF fc[Len(fc)].tempDay - fc[1].tempDay < -3 THEN "cooling"
    ELSE "steady"

\* C22: the temp-trend insight follows the difference of the half averages
\* (split at ceil(n/2), thresholds +/-4) and summary.tempTrend follows last
\* day minus first day (thresholds +/-3); the two are computed independently
\* of each other, so they can disagree on the same forecast of 2..7 days.
TrendAndSummaryComputedIndependently ==
    (pc = "returned" /\ args.fn = "analyseWeatherTrends" /\ result.available) =>
        /\ Len(forecast) \in 2..7
        /\ \A k \in InsightsWithId(result, "temp-trend") :
                InsightDirection(result.insights[k]) = HalfAverageDirection(forecast)
        /\ result.summary.tempTrend = EndpointDirection(forecast)

\* the insight reports a warming trend while the summary reports steady
WitnessInsightWarmingSummarySteady ==
    /\ pc = "returned"
    /\ args.fn = "analyseWeatherTrends"
    /\ result.available
    /\ Len(forecast) \in 2..7
    /\ \E k \in InsightsWithId(result, "temp-trend") :
            InsightDirection(result.insights[k]) = "warming"
    /\ result.summary.tempTrend = "steady"


\* current, forecast, insights and trends were all created by search id
AllFromSearch(id) ==
    /\ current # Null /\ current.search = id
    /\ forecast # <<>> /\ \A i \in 1..Len(forecast) : forecast[i].search = id
    /\ insights # Null /\ insights.search = id
    /\ trends # Null /\ trends.search = id

NothingShown ==
    /\ current = Null
    /\ forecast = <<>>
    /\ insights = Null
    /\ trends = Null

\* C23: when a search that ran alone has finished, loading is false and
\* either error is null and current, forecast, insights and trends are all
\* set from this search, or error is set and current = null, forecast = [],
\* insights = null and trends = null: a failure after the current-weather
\* fetch succeeded leaves no partial data behind.
SoloSearchAllOrNothing ==
    (started > 0 /\ SearchCalls = {}) =>
        /\ loading = FALSE
        /\ \/ error = "none" /\ AllFromSearch(started)
           \/ error # "none" /\ NothingShown

\* a later search failed after an earlier one had succeeded, and the data
\* of the earlier one is gone
WitnessFailedSearchClearsData ==
    /\ started >= 2
    /\ SearchCalls = {}
    /\ Len(recentSearches) >= 2
    /\ error = "Something went wrong. Please try again later."
    /\ NothingShown
    /\ loading = FALSE

\* C24: for any interleaving of overlapping searches, once no search is in
\* flight and error is null, current, forecast, insights and trends all come
\* from one and the same search call, and that call is the most recently
\* started one.
SettledDataFromLatestSearch ==
    (started > 0 /\ SearchCalls = {} /\ error = "none") => AllFromSearch(started)

\* C25: loading is true whenever at least one search call has started and
\* not yet finished, including when several searches overlap.
LoadingWhileSearchInFlight ==
    SearchCalls # {} => loading = TRUE

RecentListWellFormed(list) ==
    /\ Len(list) <= 5
    /\ \A i, j \in 1..Len(list) :
            i # j => toLowerCase(list[i]) # toLowerCase(list[j])

\* the entries after the first were in the old list, in the same order
KeepsRelativeOrder(old, new) ==
    \A i, j \in 2..Len(new) :
        i < j => \E a, b \in 1..Len(old) : a < b /\ old[a] = new[i] /\ old[b] = new[j]

RecentSearchStep ==
    IF started' = started + 1
    THEN \E c \in calls' \ calls :
            /\ c.fn = "search"
            /\ Len(recentSearches') >= 1
            /\ recentSearches'[1] = c.city
            /\ \A i \in 2..Len(recentSearches') :
                    \E a \in 1..Len(recentSearches) : recentSearches[a] = recentSearches'[i]
            /\ KeepsRelativeOrder(recentSearches, recentSearches')
    ELSE recentSearches' = recentSearches

\* C27: after any sequence of App.handleSearch calls, recentSearches has at
\* most 5 entries, no two entries are equal ignoring case, its first entry
\* is the most recently searched city, and the remaining entries keep their
\* previous relative order.
RecentSearchesNewestFirstNoDuplicates ==
    /\ [](RecentListWellFormed(recentSearches))
    /\ [][RecentSearchStep]_vars

\* six searches were made; the list is full, the city searched last in
\* another spelling is first and the spelling searched earlier is gone
WitnessFullListAfterRespelledSearch ==
    /\ started = 6
    /\ Len(recentSearches) = 5
    /\ recentSearches[1] = ParisLower
    /\ recentSearches[5] = Tokyo

MessagesOf(list, role) == Cardinality({i \in 1..Len(list) : list[i].role = role})

\* C26: for any interleaving of asks (send button, Enter key, quick-action
\* chips), the delayed answers and "Clear chat", every prefix of the
\* conversation contains at least as many user messages as assistant
\* messages: an answer never appears without its question before it.
AnswersFollowQuestions ==
    \A n \in 0..Len(conversation) :
        MessagesOf(SubSeq(conversation, 1, n), "user")
            >= MessagesOf(SubSeq(conversation, 1, n), "assistant")

\* C28: after any sequence of add-city submissions (also two overlapping
\* while the weather fetch is pending) and removals, starting from a
\* duplicate-free list, savedCities never contains the same city name twice
\* ignoring case; the names stored are the provider-returned city names.
SavedCitiesDuplicateFree ==
    /\ \A i, j \in 1..Len(savedCities) :
            i # j => toLowerCase(savedCities[i]) # toLowerCase(savedCities[j])
    /\ \A i \in 1..Len(savedCities) : savedCities[i] \in ProviderNames

\* C29: within one analyseWeather result the rain advice never contradicts
\* itself: whenever the outfit list contains the "Waterproof jacket or
\* umbrella" item, umbrella.needed is true.
RainGearImpliesUmbrellaNeeded ==
    (pc = "analysed" /\ insights # Null) =>
        ((\E i \in 1..Len(insights.outfit) :
                insights.outfit[i] = "Waterproof jacket or umbrella")
            => insights.umbrella.needed)

\* the trends handed to askAssistant hold no weekend insight
NoWeekendInsight(tr) ==
    \/ tr = Null
    \/ ~tr.available
    \/ InsightsWithId(tr, "weekend") = {}

\* C30: when askAssistant answers a weekend question without a weekend
\* insight (trends unavailable, or no Saturday/Sunday among the forecast
\* days), the fallback answer reports only forecast days that fall on a
\* Saturday or Sunday, and otherwise says the weekend forecast is not
\* available.
WeekendFallbackReportsWeekendDays ==
    (/\ pc = "returned"
     /\ args.fn = "askAssistant"
     /\ insights # Null /\ current # Null
     /\ detectIntent(args.question) = "weekend"
     /\ NoWeekendInsight(args.trends)) =>
        LET fc == IF args.forecast = "absent" THEN <<>> ELSE forecast
            weekend == {i \in 1..Len(fc) : IsWeekendDay(fc[i])}
        IN  IF weekend = {}
            THEN result.text \in {"Weekend forecast not available yet.",
                                  "Forecast data not available."}
            ELSE /\ result.text = "Forecast:"
                 /\ \A k \in 1..Len(result.days) : \E i \in weekend :
                        result.days[k] = [tempMin |-> fc[i].tempMin,
                                          tempMax |-> fc[i].tempMax,
                                          pop |-> fc[i].pop]

=============================================================================
